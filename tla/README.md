# Verification of myfreelib

This directory specifies, in TLA+, the programs of this repository in which
processes, threads, signals, messages or kernel objects meet, model-checks the
specifications with TLC and proves the central theorems with TLAPS. The
repository is a collection of small demonstrations (`src/packages`): each one is
a few hundred lines of C around one kind of system call. What is hard in them is
never the data; it is who does what in which order, and what stays behind when
one of them ends in the middle.

Read this file next to the sources. `PROJECT.json` maps every definition to the
lines it models, and lists the runs, the hazards and the theorems.

## Conventions

* One module per demonstration. State is in `VARIABLES`; where a program is, is
  the program counter `pc` (or `spc`, `wpc`, `cpc`, ...), named after the call it
  is about to make. An action is one system call together with what the code
  does with its result, up to the next call.
* The kernel's side of a call (a semaphore set, a FIFO, a message queue, an
  entry in a table) is modelled from how the code uses it and is marked
  `external` in the map.
* `Faults`, a set of names, says what may go wrong: a failing call, a signal, a
  SIGKILL, a lost datagram. The runs allow all of them.
* History variables are listed last and named as such; nothing depends on them.
* A definition called `Mut...`, with a comment `Mutant`, is a wrong version of
  the definition that follows it. No action uses it. It shows that the property
  it belongs to would notice that bug.
* Bounds on what the environment does (`MaxKills`, `MaxLoads`, `MaxLines`, ...)
  are constants, marked `(a bound)` where they are declared.

## Inventory

| Component (under `src/packages`) | State it keeps | Operations | Interaction | Module |
|---|---|---|---|---|
| `sys_call_demo/sysv_shm_demo` | semaphore pair, segment `cnt`/`buf` | `sysv_shm_writer`, `sysv_shm_reader`, their signal handlers | shared memory, two semaphores | `SysvShm` |
| `sys_call_demo/pipe_demo`, server and client | `seqNum`; FIFOs in the file system | serve, ask | messages over FIFOs, blocking `open` | `FifoSeq` |
| `sys_call_demo/sysv_msg_demo`, server and client | server queue, private queues, children, output file | serve, `serverRequest`, `grimReaper`, `clean`, client | messages, `fork`, SIGCHLD, a common file | `SysvMsg` |
| `sys_call_demo/posix_mq_demo` | queue, registration for its notification | create, unlink, send, receive, sig_notify, thr_notify | messages, signals, notification threads | `PosixMq` |
| `sys_call_demo/posix_shm_demo` | object with two semaphores and a line | create, unlink, server, client | shared memory, semaphores | `PosixShm` |
| `sys_call_demo/inet_socket_demo` | sockets | data_server, data_client, addrinfo, nameinfo | UDP datagrams | `UdpEcho` (the first two) |
| `sys_call_demo/pty_demo` | pseudo-terminal | `ptyFork`, relay loop | `select`, the terminal's buffers | `PtyRelay` |
| `driver`: `helloworld_class_driver`, `helloworld_char_driver`, `uevent`; of `vexpress-a9`: `char_class_driver.c`, `first_cdev.c`, `char_miscdevices.c` | kernel tables of devices, classes, nodes | init, roll-back, exit, open | registrations shared by all modules | `CharDrivers` |
| `sys_call_demo/unix_socket_demo` | sockets, a path, descriptors, threads | stream and datagram servers and clients | connections, datagrams, the common path | `UnixSocket` |
| `sys_call_demo/pipe_demo`, `pipe_demo.c` | a pipe, who has its ends open | demo, sync, redirect | inherited descriptors, end of file as a message | `PipeDemo` |
| `sys_call_demo/posix_sem_demo` | named semaphores; `glob`, `uname_sem` | create, unlink, wait, post, get; uname | semaphores, two threads | `PosixSem` |
| `colorprint` | the progress bar and the shared buffer `_bar` | `clprogress_init`, `clprogress` | threads that share a buffer | `ProgressBar` |
| `sys_call_demo/file_lock_demo`, `io_module_demo` | locks of a file; readiness | flock, fcntl; select, poll, epoll | the kernel only | not modelled, see below |
| `mmap_demo`, `sysv_sem_demo`, `libdemo`, `sysv_msg_demo.c`, `driver/helloworld`, `driver/dtc`; of `driver/vexpress-a9`: `helloworld.c`, `helloworld_with_timer.c`; `memory_debug`, `study/cpp`, makefiles | - | - | - | not modelled, see below |

## What each module says

### SysvShm, on OneSlot

`wpc` and `rpc` walk through `main()` of writer and reader. `WSemop` and
`RSemop` are the common form of every `semop()`: when the set is there they wait
and add to the two semaphores, when it was removed they fail. `watt` and `ratt`
tell a pointer that was never set, one that is mapped, and one that is still set
although a signal handler has called `shmdt()`: using the last one is a SIGSEGV
(`WSegv`, `RSegv`). `WRemove` is the part that `clean()` and `sig_handler()`
share. `Init` starts from any state a killed writer can have left
(`LeftBehind`); that this is so is checked by `LeftBehindClosed`.

* Theorems `Exclusion` and `PrintedInOrder`: the reader never looks at a buffer
  that is being filled, and prints a prefix of the input, whatever fails. They
  are proved for every input, so that no run repeats them.
* `early` marks the one exception: a reader that found the leftovers of a killed
  writer before the new writer's `SETALL`. Such a reader may print a stale
  block and may miss blocks. `FreshNeverEarly`: that cannot happen where no
  segment was left. `NeverBackwards`: even then nothing is repeated or reordered,
  if the blocks of the input differ (the model cannot tell equal ones apart).
* `NothingLeft`, `ReaderReleased`: however the writer ends, except by SIGKILL,
  nothing stays behind and no reader hangs. This includes the crash after SIGINT,
  because the handler has already removed both objects.
* `Delivered`: without failures everything arrives and both programs end.
* `Transfer`: the demo refines `OneSlot`, the abstract hand-over of a sequence
  through one slot. A reader that came early is mapped to the initial state.

The other direction of `ReaderReleased` is false and not stated: a reader that
dies while it owes the writer a semaphore leaves the writer in `semop()` for ever.

### FifoSeq

`spc` and `cpc[c]` walk through `main()`. An `open()` of a FIFO is two steps,
asking and being let go by the other end (`waitR`, `waitC`, `waitS`), because this is
where the programs hang. `queue` is the contents of the server's FIFO, which the
kernel drops when nobody has it open (`Kept`). `resp[c]` is a number together
with the run (`life`) of the server that gave it.

* `Unique`, `RequestOrder`: within a run of the server numbers are unique and
  follow the order of the requests. Across a restart they repeat: `seqNum`
  starts at 0 again.
* `GapsAreDead`: the code counts a request even if it could not be answered; a
  number can be missing only for a client that was killed.
* `NoGarbage`: the client does not look at the result of `read()`; it prints an
  uninitialised answer only if it has outlived the very run of the server that opened
  its FIFO (`opened[c]`). A restart before that is no excuse.
* `Answered`: the server answers, unless it hangs in `open()` on the FIFO of a
  client that was killed (`Wedged`). That hang is real.

### SysvMsg

Built as the Makefile does, with `NEW_SERVER_CLIENT_MODEL`. `child[c]` is the
process forked for client `c`. A SIGCHLD is one bit (`chld`), as signals are
merged, and `reaping` is the loop of `grimReaper()`, one `waitpid()` per step.
`Msgctl` says what `msgctl(msgid, cmd, NULL)` does; the code passes `SERVER_KEY`
as the command, which is no command.

* `NoZombieForgotten`: merged signals are harmless because the handler loops.
* `QueueServes`: every child runs the inherited `atexit(clean)`. The running
  server keeps its queue only because `clean()` is ineffective; the mutant that
  repairs `clean()` alone breaks this property.
* `AloneWhole`: a client that had the output file to itself stores the file it
  asked for, or, after a read error, a part of it: the error is reported as
  `RESP_MT_END`. Clients that overlap destroy each other's output (holes), which
  the model shows and nothing forbids.
* `Served`: who waits, for an answer or for room for its request in the server's
  queue, is served, though another client was killed with its queue
  full and its child sleeps in `msgsnd()` for ever.
* `QueueRemoved` is what the message of `clean()` says, and is **violated** (run
  `SysvMsg_left`, see Findings).

### PosixMq

All messages are alike, so a queue is a number. A notification is sent once,
when a message arrives at an empty queue on which nobody waits (`Arrive`).
`pc[p] = "suspend"` is `sigsuspend()`, `threads[p]` are the notification threads
of a `thr_notify` process.

* Theorem `NeverDeaf`: a process that sleeps is registered or has a signal pending. If
  another process registers in between, `mq_notify()` fails and the process ends.
* `NoLostWakeup`, `Woken`: the code registers again *before* it drains; the
  other order, or one read instead of the loop, loses a wake-up. The claim starts
  with the first drain (`drained`): before it the process may sleep on a queue
  that was not empty at its start, because the code does not drain then.

`TReceive` shows a further defect of the code, without a property: `thr_notify`
passes `MAX_MSG`, a number of messages, as the length of its buffer, so that
`mq_receive()` always fails.

### PosixShm, on OneSlot

`read` and `write` are the semaphores in the object. Every start of a server
runs `sem_init()` again. On a semaphore on which somebody sleeps this is
undefined behaviour; the model lets any set of sleepers be forgotten, and
`Wake` lets one of them come back for no reason.

* `PermitsBounded`: the semaphores and the processes between them together hold
  at most as many permits as there were initialisations. With one start this is
  mutual exclusion; a second start while a client is inside doubles it.
* `Transfer`: until the second initialisation the object is a
  one-slot buffer.
* `LineRead`: a posted line is read if a server is left that was not forgotten.

A client that reaches end of file, or is killed, keeps its permit and stops
everybody; the bound `<=` of `PermitsBounded` leaves room for that, and
`LineRead` does not cover it (no line was posted).

### UdpEcho

Datagrams are a set: they overtake each other, may be lost, or may leave a copy.
`spc = "send"` is the moment between `recvfrom()` and `sendto()`. A connected
socket reports an ICMP error at a later call (`refused`).

* `AnswersPast`: with duplicates the client's answers can lag behind, but never
  come from the future, from another client or from nowhere.
* `AnswersMatch`: until a datagram was duplicated they match.
* `Answered`: a client hangs only if a datagram of its exchange was lost, or if the
  server was killed while the request was in its socket's buffer or between `recvfrom()`
  and `sendto()`: `SKill` loses both. The client sets no time limit and sends nothing
  twice. A server killed before the request arrives, or after the answer was sent, and
  started again does not hold a client up.

### PtyRelay

The relay, the child that becomes a shell, the shell and the user. `SizeT` is
the conversion to `size_t`, on which the behaviour of the loop depends:
`numRead <= 0` is never true for -1, and `write(1, buf, SIZE_MAX)` returns -1,
which equals `numRead` (`GoesOn`). The calls of the relay that may fail are those of
`PtyFaults`: `atexit()`, `select()`, `read(0)` and the `write()` to the standard
output (`print`); `signal` is ^C. `failed` is the history of them.

* `OnlyUserEnds`: hence neither the end of the shell nor a failed `read()`, of the
  master or of the input, ends the relay; it spins
  until the user types or ends the input. It ends with the input, with a line that no
  shell is there to take, or because `atexit()`, `select()` or the `write()` to the
  standard output failed or the user interrupted it. The mutant with a signed `numRead` ends.
* `RelayServes`: the end of the input does end it, unless a `read(0)` failed, which the
  loop takes for one that did not and which may fail again and again; and until it ends,
  output appears in order. Both assume that what is typed fits into the terminal's input
  buffer. With more input they are false: the relay sleeps in `write()` to the
  master while the shell sleeps on output that only the relay would read.

### UnixSocket

Servers and clients of both kinds share `UNIX_SOCKET_PATH`. `path` is the server
to whose socket the name leads. A server is at `remove`, `bind`, `listen`, then
`accept` or `recv`; a descriptor is a slot of `fd[s]`, given out from the lowest free one
on, as the kernel does. `cfd[s]` is the variable of the accept loop, and `cell[c]`
what `pcfd` points to in the thread of connection `c`; 0 is the NULL that the code gets
when `malloc()` fails and does not check, and using it is a SIGSEGV of the
whole server. `waiting` is the backlog, `dq` the queue of a datagram socket.

* `OwnConnection`: a thread works on the connection it was started for, though the
  loop goes on to the next one and descriptors are reused. Passing the address of
  the loop's variable instead of a cell breaks it.
* `StreamServed`: a client that ends normally has all its lines printed in order and its
  descriptor closed, unless the server ended or could not start a thread.
* `DataWhole`: while a datagram server runs and keeps its path, the lines of a
  client that found it are printed from the first one on, and its queue holds the next
  ones in order, each once, up to the last that `sendto()` has handed over (`HandedOver`);
  nobody looks at the result of `sendto()`, but it sleeps when the queue is full. `robbed` marks the exception,
  a server whose path another one removed: it goes on serving nobody.
* `PathServed`: `remove()` and `bind()` of several servers interleave, and one may
  bind between the two calls of another; whoever fails, the path ends up with a running server.

### PipeDemo

The three commands of `pipe_demo.c` as one module, because what they are about
is the same: `rd` and `wr` say who has which end open. A fork copies them, an end of a
process closes them. `demo` is the command.

* `EofTells`: end of file says what the code takes it for. The parent of `sync` prints that
  all children are ready; that is true unless a child was killed, which looks the same.
* `ReadersEnd`: every reader gets to the end of the file, whatever fails and
  whoever is killed. An end that stays open in the wrong process hangs it.

A child of `demo` that reads end of file prints its uninitialised buffer; that
is in the model (nobody tells `got`), and no property denies it.

### PosixSem

Two programs that share no state. *Commands on the named semaphore*: `name` is the
object the name leads to, and an object lives on for those who have it open (`mine`),
so that a waiter and a poster may mean different ones. Built with
`POSIX_SEM_TIMED`, as the code defines it. *uname*: `glob++` is a load and a store (`reg`),
the semaphore `usem` is posted twice, three seconds apart. A thread that
could not be created leaves its identifier uninitialised; joining it is undefined
and modelled as going on or crashing.

* `SemEnds`: every wait ends, by a post or by its deadline, and so does `uname`.
* `GlobCounts`: `uname` prints the number of threads, although nothing locks
  `glob`: the first post lets one thread through, and the second comes three seconds
  later. `slow` marks the runs in which that was not enough; in them an
  increment can be lost.

### ProgressBar

The buffer of a bar is a row of cells with one cell more at either end, so that a
write outside shows. Each `memset()`, store and `printf()` of `clprogress_init()`
and `clprogress()` is a step, and the threads interleave between them. The length
is at least 1 and the percentage between 0 and 1 (the code checks neither; its
demo obeys both). Percentages are multiples of `1 / Steps`: for a power of two the
float arithmetic of the code is exact.

* `WritesInside`: `_bar` is never written beyond what its bars take up, whatever length
  is asked for (`Clamp`), except at -1: for the background style,
  `pro.pro[(int)(len * percent) - 1]` is the byte before the buffer as long as the product is below 1.
* `BarRight`: the header promises thread safety to whoever passes a buffer.
  Then what is printed depends on nobody else: a # bar shows the largest percentage so far
  (nothing blanks it, so that it never gets shorter), and a background bar is cut at
  its percentage. The second half of a background bar runs on behind the bar's end,
  since `memset()` has blanked the terminating zero; where it stops is stated for `_bar`
  when no longer bar was drawn there. For a caller's buffer nothing limits it.

### CharDrivers

Each driver is two lists: what its init function registers, with what it takes
back if that fails (`Step`, `Unchecked`), and what its exit function takes back.
`InitStep`, `TakeBack`, `Open` and the rest interpret the lists on the kernel's
tables `reg`. `cdev_del()` takes away the entry for a *number*, not for an
owner, which matters in `helloworld_class_driver.c`: its error paths give the
number back first.

* `NoWildOpen`: until the load of some driver failed, no `open()` reaches freed
  memory. After a failed load it can, since `char_class_driver.c` forgets a cdev on each
  error path, and `helloworld_class_driver.c` removes its cdev too late.
* `OpenInCode`: `.owner = THIS_MODULE` protects open files, except those opened
  while an init function runs that then fails.
* `NodeReaches`: a node leads to its own driver.
* `UnloadedClean`: what is left behind is at most what the error paths forget,
  listed in `Forgotten`.

## Runs

| Run | Instance | Distinct states | Question |
|---|---|---|---|
| `SysvShm` | 3 blocks, all faults, all leftovers, fair | 14 000 | everything said of SysvShm above |
| `FifoSeq` | 3 clients, 1 restart, all faults, fair | 233 000 | everything said of FifoSeq |
| `SysvMsg` | 2 clients, files of 2 and 0 blocks, queue of 1, all faults, fair | 327 000 | all but `QueueRemoved` |
| `SysvMsg_left` | the same, only SIGINT | violated | `QueueRemoved` |
| `PosixMq` | 1 sender, 1 receiver, 1 sig_notify, 1 thr_notify, 2 queues of 2, fair | 110 000 | everything said of PosixMq |
| `CharDrivers` | 6 drivers in three pairs, 2 loads each, 2 dynamic majors, every failure | 980 000 | everything said of CharDrivers |
| `PosixShm` | 2 servers, 2 clients, 2 starts, 3 lines, 1 object, fair | 74 000 | everything said of PosixShm |
| `UdpEcho` | 2 clients, 2 arguments each, one too long, all faults, fair | 198 000 | everything said of UdpEcho |
| `PtyRelay` | buffers of 2, 2 lines typed, 3 said, every failure, fair | 9 500 | everything said of PtyRelay |
| `UnixSocket` | two servers and two clients of a kind, or one of each; 2 lines, queues of 1, backlog 0, all faults, fair | 414 000 | everything said of UnixSocket |
| `PipeSem` | all three demos with 3 children; 2 waiters, 2 posters, 2 semaphores; uname; all faults, fair | 70 000 | everything said of PipeDemo and PosixSem |
| `ProgressBar` | `_bar` of 3 cells, bars of 1, 2 and 4, halves; one thread with 4 calls, one with 2 | 5 900 000 | everything said of ProgressBar |

`MCPipeSem` holds two modules that share nothing: a variable `program`
chooses which of them runs, so that the run is their sum and not their product.

Deadlock checking is off everywhere: these programs end, and several of them
really hang for ever (a writer without a reader, a server in `open()`); which of
these hangs must not happen is said by the liveness properties.

Why the bounds are enough. *SysvShm*: three different blocks show a lost, a
repeated and a swapped one, and the theorems hold for every input. *FifoSeq*: a third client is
needed so that one can be killed while two others compete for the order; one
restart shows both sides of it. *SysvMsg*: two clients overlap on the output
file, two children end within one SIGCHLD, and a file longer than its queue makes a
child sleep. *PosixMq*: a competitor for the registration, a competitor for the
messages, and a queue that is unlinked while still in use. *PosixShm*: a second
start, while a server and a client of the first one are at any point; three lines so that
a line can be lost, printed twice or swapped; objects do not influence each other, as
every action touches only the object of its process. *UdpEcho*: two messages of a client show an answer that
is one behind; the second client shows foreign answers. *CharDrivers*: a second load of each driver meets what
the first one left; only drivers that share a table (the class pair) can disturb each other,
the others are paired to show that they do not. *PtyRelay*: one more line said
than fits into the terminal, and as many typed as fit. *UnixSocket*: two connections
reuse each other's descriptors; a queue of one fills at the second line; three groups
of processes, because processes of different kinds meet only at the path. *PipeDemo*:
three children, so that the last one inherits from a parent whose earlier ones
have come and gone. *PosixSem*: a second object under the old name is what
confuses a waiter. *ProgressBar*: a bar of one cell, one longer than `_bar`, one between them;
three drawings show a percentage that goes back and a bar that is set up anew beside
another thread's.

## Fairness

Weak fairness of a process means that the scheduler runs it whenever a system
call of its would return. Nobody owes a signal, a kill, a fault, a new client, a
line typed, or a shell's output, and those are never fair.

* `SysvShm`, `FifoSeq`, `SysvMsg`: each process on its own. A semaphore or a message queue with
  one waiter needs nothing stronger.
* `PosixMq`, `PosixShm`: only the processes whose progress the property is about
  (`sig_notify`, the running servers).
* `PtyRelay`: the relay and the child before it becomes a shell; not the shell.
* `UnixSocket`: the accept loop and the threads of the server. Clients need not send,
  nor end; a queue that is full is emptied by a thread that is fair.
* `PipeSem`: every process and thread, and the passing of a deadline. Nobody need create,
  unlink or post.
* `ProgressBar`, `CharDrivers`: no liveness, no fairness.
* `UdpEcho`: strong fairness for the reception of the datagram a client waits to
  have answered: a datagram that is neither lost nor refused arrives, though the
  server is busy with others again and again. A datagram network promises
  nothing; `lost` records where it does not deliver.

## Proofs

TLAPS checks the following for all values of the constants, under the named
assumption on them in each module (`RunAssumption`, `ClientAssumption`,
`MsgAssumption`, `MqAssumption`, `ShmAssumption`, `PipeAssumption`, `SemAssumption`,
`SocketAssumption`, `BarAssumption`, `PtyAssumption`, `EchoAssumption`, `DriverAssumption`).
They say that

* the input is a sequence of blocks, files are sequences of blocks, `Stale` and
  `Hole` are no block, model values are different from the others;
* what the program or the environment bounds is a natural number; queues and
  buffers hold at least one item, and `SIZE_MAX` is more than 2;
* there are finitely many processes where they are counted (`FifoSeq`, `PosixShm`,
  the stream clients of `UnixSocket`);
* a dynamic major is one of the 12 bits the kernel gives it, and none of the three that
  are taken by number (10, 202, 222).

Every safety property of the runs is also a theorem, and so are the two refinements.
Modules that share nothing share a module of proofs; their names are told apart by a
prefix (`PtySpec`, `EchoSpec`, `SemSpec`, `PipeSpec`).

* `SysvShmProofs`. `TypeCorrect`; `Inductive`; from it `Exclusion`,
  `PrintedInOrder`, `NeverEarly`, `TransferImplemented`; and
  `NothingLeftBehind`. Neither exclusion nor order is inductive. `IInv` says that
  from `SETALL` on, unless the reader was early, the system is in one of four
  phases (`Phase`): the values of the two semaphores say whose turn it is, the
  phase bounds where each program counter can be, and `Filled` relates the
  contents of the segment to what was read and printed. `Setup` ties these
  to the order in which the writer creates things. `PhaseStep` has a step per
  action. The refinement then follows from `PrintStep`, `ReadStep`
  and `EarlyBegins`: only the reader's `write()` and the writer's `read()` move the
  abstract state. `NothingLeftBehind` has its own invariant: a pointer that was
  unmapped means that the handler ran, and so that both objects are gone.
  `LeftoversCovered` and `NoBlockTwice` also hold of readers that came early, so that
  the phases are of no use. `SemInv` bounds the semaphores for any reader. Then, while the
  segment is not lent, `READ_SEM` keeps out whoever waits for it (`KeptOut`), and a reader
  that has printed what is in the segment does not look again before the writer has
  put a new block there (`NotAgain`).
* `SysvMsgProofs`. `TypeCorrect`; `QueueStays` and `ZombiesReaped`; the step lemma
  `OthersStep` says that neither clients nor children touch the server's flags
  other than by becoming a zombie together with a SIGCHLD. `FileArrives`: what a
  client has received and what is in its queue are together what its child has sent
  (`Stream`); `OnDisk` relates that to the file of a client that is alone with it.
* `PosixMqProofs`. `TypeCorrect`; `NeverDeaf` and `WakeupsKept` from one
  invariant on where a process is between waking and draining.
* `PosixShmProofs`. `PermitBound`, by counting: each action changes the values of the
  semaphores and the set `Inside` of an object together (`Enters`, `Stays`, `Leaves`), and only
  a second `sem_init()` adds a permit. From it `Implements`, the refinement of OneSlot
  on each object initialised once: whoever is inside is alone there (`Alone`), so that
  all steps but filling and printing leave an object as it is (`ObjectStep`), and
  `Free` and `Full` say how far the printed lines are behind the filled ones.
* `UnixSocketProofs`. `PathLeads`, from `PathInv`: while the path leads nowhere, somebody
  is about to bind, was ended, or nobody got as far as that. `OwnDescriptor`, from `OwnInv`: a
  connection waits once, before it has a thread; a descriptor in use is that of one connection,
  and its thread has the number in a cell of its own. That `accept()` finds a
  free descriptor is the pigeonhole principle (`SlotFree`). `LinesWhole`, from `DataInv`: the
  lines of a client that are printed and those in the queue of its server follow each other
  without a gap up to the last one handed over, and none is in the queue of another server.
* `PipeSemProofs`, of `FifoSeq`, `PosixSem` and `PipeDemo`.
  `TypeCorrect`; `NumbersUnique`: no answer of the current run is at or above
  `seqNum`, except that the number being answered is given out and not counted yet.
  `FirstComeFirst`, from `OInv`: who has an answer has asked before the client that is being
  served, and that one before all in the queue, which is in the order of asking.
  `GapsOfTheDead`, by counting: there are at most as many unused numbers as killed clients
  whose request was read and not answered (`Spent`). `GarbageFree`: as long as the run of
  the server that let a client through `open()` of its FIFO lasts, the client has its
  answer, or that server is about to write it.
  `CountExact`, from `CountInv`: between the two posts the value of `uname_sem` and the threads
  that are let through are together one, so that `glob++` is never done twice at once.
  `EofTruth`, for any number of children: a process that can still say something holds its
  write end, so that `wr` is empty only when all are through or were killed; and each program
  counter implies which ends were inherited.
* `TerminalProofs`, of `ProgressBar` and `PtyRelay`. `WritesConfined`, for any threads, lengths
  and percentages; `Quotient` bounds the integer division. `ThreadSafe`: `Drawn` says
  what a buffer holds between two operations of its only user, `OtherStep`
  that no other thread touches it, and `StrEnds`, `StrLasts` what `%s` prints from
  it. The minimum in `Str` exists by well-foundedness of `<` (`LeastNatural`).
  `RelayOutlivesShell`, for any width of `size_t` and any set of failures: neither
  `numRead` after an error nor the result of the `write()` that follows ends the loop
  (`AllGoOn`), so that each other way out leaves its mark.
* `DriverEchoProofs`, of `CharDrivers` and `UdpEcho`. `OpenFilesHaveCode`, `WildOpenNeedsFailure`,
  `NodesReachTheirDriver` and `ExitLeavesNothing`, all from one invariant `DrvInv`. It says
  of each entry of the kernel's tables that the load it belongs to is there and will take it
  back, or forgets it, or that a failed load left it (`EntryOk`); of each driver what it
  has and has still to take back, in which order (`DriverOk`, `Orderly`); that a major
  that was given out is nobody else's (`OneRegion`), so that, of the cdevs with one
  number, that of its owner is found first, in front of forgotten ones (`Newest`); and that without
  a failure a cdev is there until its own driver removes it (`CdevsStay`), which is what fails
  after one, since `cdev_del()` goes by the number. The lemmas before it say what the
  lists of the six drivers have in common; the steps after them do not look at the lists again.
  `EchoOfThePast` and `EchoOfTheMessage`: a client has as many answers as it has sent messages,
  all echoes of its own (`PastInv`), and without duplicates the datagram of an exchange is
  in one place (`Apart`). `Rank` counts the messages that are not skipped as too long.

The type invariant of every module is a theorem too: `TypeCorrect` (`SysvShm`, `SysvMsg`,
`PosixMq`, `FifoSeq`), `DriversTyped`, `ShmTypes`, `SocketTypes`, `SemTypes`, `PipeTyped`,
`BarTypes`, `PtyTypes` and `EchoTyped`. They are no property of the runs. Those that follow
from no simple induction: `ShmTypes` bounds how often the semaphores of an object are
initialised by the number of servers started, counting those that have yet to do it (`Owing`);
`SocketTypes` needs a free descriptor for `accept()` (`SlotFree`); `SemTypes`, which also states
that nobody waits for or posts to a semaphore it has not opened (`Opened`); `PipeTyped` that the parent
stops forking in time; `BarTypes` that a string starts within its buffer; and `EchoTyped`
that what is under way was given to a client (`PastInv`).

Only model-checked: the liveness properties (`Delivered`,
`ReaderReleased`, `Answered`, `Served`, `Woken`, `LineRead`, `RelayServes`,
`StreamServed`, `ReadersEnd`, `SemEnds`), which need fairness and `ENABLED`, beyond
this prover.

## Findings

* `sysv_msg_server.c:27` (and 21): `msgctl(msgid, SERVER_KEY, NULL)` where
  `IPC_RMID` was meant. The queue is never removed, although line 26 says
  "Remove message queue."; the next server is refused by `IPC_EXCL` (line 73). Run
  `SysvMsg_left`. Putting `IPC_RMID` there is not a repair: each child that ends
  would remove the queue of the running server (`QueueServes`).

Other defects that the models contain, and the properties state as exceptions, are in
the list of hazards of `PROJECT.json`, each at its line.

## Not modelled

* `posix_mq_demo` `getattr`, `inet_socket_demo` `addrinfo`/`nameinfo`: they print
  what the system tells.
* `sysv_msg_demo.c`, `sysv_sem_demo`, `mmap_demo`: single calls by command; no protocol.
* `sysv_shm_demo.c`, and the `#else` branches of `sysv_msg_server.c` and
  `sysv_msg_client.c`: not compiled.
* `file_lock_demo`: each command takes one lock and sleeps ten seconds with it. That
  `flock()` and `fcntl()` locks do not see each other is a fact about the kernel, and a property
  would restate it. (`fcntl_un` says that it deletes a write lock, line 180, and
  leaves that to the end of the process.)
* `io_module_demo`: one process, one descriptor; a time limit that expired is treated like
  readiness, and the following `read()` sleeps.
* `colorprint`: `clprogress_print()`, colours, titles and the demo, which print.
* `libdemo`: dynamic linking. `driver/helloworld/helloworld.c`,
  `vexpress-a9/helloworld.c` and `helloworld_with_timer.c`, `driver/dtc`: modules that
  print, and a device tree. (The other two directories named `helloworld_...` are modelled.) `memory_debug`: a deliberate error for a debugger.
  `study/cpp`: hello world. Makefiles.
* `posix_shm_demo.c:78-80`: a `sem_wait()` that fails, after which the server carries on. With
  no signal handler installed and a valid semaphore it does not fail.
* Within the modelled programs: argument parsing, messages, permissions, and the
  lengths and contents of data beyond what the properties tell apart.

## Plan

Order of work: shared memory first, as the only hand-written synchronisation
protocol; then the servers with several clients; then those whose environment is
adverse (network, terminal, kernel tables); then the remaining programs in which
processes or threads meet. All of these are modelled. The proofs followed in the same
order: mutual exclusion and the refinements first, then the other safety properties; these
are complete, and so are those of the type invariants. What is not proved is liveness.

No two demonstrations share an object, so that there is nothing to compose beyond
client and server of each.
