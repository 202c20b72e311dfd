# Verification of the CS392 repository

The repository is a semester of systems programming in C: a chat server and its
client, threads around a bounded buffer, processes around shared memory and
System V semaphores, a threaded sieve, a small shell, pipelines, and a number
of smaller exercises. This directory holds TLA+ models of these programs, TLC
configurations that check them on small instances, and TLAPS proofs about most of
them for every value of the constants.

## 1. The system

| component | source | state | operations | talks to |
|---|---|---|---|---|
| chat server | `hw7/chatserver.c` | slot table (`client_sockets`, `usernames`, `num_connections`), `inbuf`, `running` | start, select, accept, name, line, leave, cleanup, SIGINT | clients over TCP |
| chat client | `hw7/chatclient.c` | `username`, one socket | prompt, connect, welcome, name, select, send, receive | server over TCP, a person over stdin |
| producer/consumer | `392/producerconsumer/produceconsume.c` | `queue`, `num_occupied`, two indices | produce, consume, create, join | threads: one mutex, two conditions |
| semaphores, shared sum, sleeping processes | `mpsumarray/`, `sharedmem/` | one SysV semaphore, one shared integer | P, V, create, delete; set-up, fork, wait, clean-up | processes: shared memory, semaphore |
| threaded sieve, threaded sum | `mtsieve/`, `lab 10/` | `total` / `sum`, segments per thread | partition, sieve, count, join | threads: one mutex |
| minishell | `392/minishell/version2/`, `392/Csetjump` | `p`, `buf`, the jump buffer | read, cd, fork, exec, wait, CTRL+C | child processes, signals, a terminal |
| pipelines | `392/SortedPermFinder`, `392/countprocess`, `392/Cpipes` | pipe ends, child processes, a count | fork, exec, close, read, wait | processes: pipes |
| permission finder | `392/PermissionFinder` | options, the calls of `findpaths` | read an option, walk a directory | its stdout, maybe a pipe |
| forking labs | `392/lab 7`, `392/Fork`, `392/signalprimes` | children | fork, exec, wait, kill | child processes |
| signal labs | `392/lab 9`, `funsignals`, `Calarms`, `signals` | a flag or value set by a handler, a count | loop, sleep, handler, report | signals |
| linked lists | `392/LinkedList`, `392/lab 3` | head, tail, length; two pointers per node | push, pop, insert in order, free | sequential |
| quicksort | `392/Quciksort` | an array | options, read, partition, print | sequential |
| text helpers | `hw7/util.h` | none | read a line from a terminal | a person |
| echo | `392/clientserver` | one socket, a buffer that is reused | accept, receive, send | TCP |
| findserver | `392/lab 11` | a port, a socket | connect, receive with a timeout | TCP |

What is hard in it: a select loop that reads one descriptor set across several
calls; messages without boundaries on a byte stream; resets and SIGPIPE;
signals between a test and a system call, or between fork and exec; jumps out of
a handler; lost and stolen wakeups around condition variables; processes that
die while they hold a semaphore; ends of pipes that somebody keeps open; errors
in the middle of a sequence of forks; pointers kept by hand. `PROJECT.json`
lists each hazard at its line with the properties that cover it.

## 2. Modules

| module | models | kind |
|---|---|---|
| `Tcp` | the kernel's TCP (external) | endpoints, backlog, reset, SIGPIPE |
| `ChatText` | the texts of `chatserver.c`/`chatclient.c` | values |
| `ChatServer` | `hw7/chatserver.c` | one action per system call |
| `ChatClient` | `hw7/chatclient.c` | one action per system call, per client |
| `Chat` | server + clients + network | composition, fairness, properties |
| `ChatProps` | what the people are told | properties over histories |
| `ChatProofs` | | proofs about `Chat` (types, table, connections) and `ChatProps` (what the people are told) |
| `BoundedFifo` | what the circular buffer promises | abstract specification |
| `BoundedBuffer` | `392/producerconsumer/produceconsume.c` | one action per pthread call |
| `BoundedBufferProofs` | | proofs about `BoundedBuffer` |
| `SysvIpc` | `mpsumarray/semaphore.c` and the kernel under it | operators on semaphores and segments |
| `IpcRun` | what the two programs on it share | set-up, critical section, clean-up, wait, kill |
| `SharedSum` | `mpsumarray/mpsumarray.c` | its forks and its children |
| `Sleepers` | `sharedmem/sleepingprocesses.c` | its forks and its children |
| `Ipc` | runs of both in one directory | composition, fairness, properties |
| `IpcProofs` | | proofs about `Ipc`: types for any number of runs, the rest for one |
| `MutexRun` | what the two threaded programs share | create, lock, add, unlock, join |
| `Sieve` | `mtsieve/mtsieve.c` | options, partition, one thread's sieve |
| `ThreadSum` | `lab 10/mtsumarray.c` | its shares, its failing create |
| `MutexThreads` | a run of either | composition, fairness, properties |
| `Sums`, `SumsProofs` | a sum over a set, and what adding to it does | operators; lemmas |
| `MutexThreadsProofs` | | proofs about `MutexThreads` and the sieve of `Sieve` |
| `Unix` | processes, descriptors, pipes and signals (external) | operators and the kernel's state |
| `Pfind`, `Pipelines` | `pfind.c`; `spfind.c`, `countprocess.c`, `pipes.c` | one action per call; the filters external |
| `Minishell` | `minishell.c`, `prompt.c`, and a terminal | one action per call, the handler anywhere |
| `Numerals`, `Forks` | `nforks.c`, `forkexec.c`, `forkwithfile.c`, `primestest.c` | one action per call |
| `Naps` | `snooze.c`, `signals.c`, `alarms.c`, `worker.c` | one action per test of the flag |
| `Lists`, `AbstractList` | both `linked_list.h`; what they promise | a step per pointer followed; abstract specification |
| `Quicksort`, `SortFile` | `quicksort.c`; `sort.c` around it | one action per turn of lomuto's loop |
| `GetString` | `get_string` of `util.h` | one action per read |
| `Echo`, `FindServer` | `clientserver/`; `findserver.c` | one action per call |
| `Labs` | a run of any one of the programs above | composition, fairness, properties |
| `LabsProofs` | | proofs about the lists, quicksort, get_string, the echo pair and findserver in `Labs` |
| `ProcessProofs` | | proofs about the process table, minishell, the forking and the signal labs in `Labs` |
| `LabTypesProofs` | | the types of `Labs`, from both |
| `MCChat`, `MCBoundedBuffer`, `MCIpc`, `MCMutexThreads`, `MCLabs` | | instances for TLC |

### Chat

The server is one thread, so its variable `pc` names the next system call that
can block or can be observed, and everything the code does up to the call after
it is one action. `Accept` is accept, the refusal test and the welcome message;
`RecvName` is the recv of line 201 with all of lines 206-226 after it. The three
parallel structures of the table are the variables `client_sockets`,
`usernames` and `num_connections`; `fdtab` is the process's descriptor table,
which is needed because descriptors are reused and because one path leaks one.
`sockset` is the fd_set: the model keeps what select reported through the whole
round, as the code does.

`Tcp` gives each connection two endpoints with a receive queue of units and a
state of the link. `recv` takes any prefix of the queue, so names, lines and
"bye" may come in cut or together. A close with unread bytes becomes a reset; a
send after the peer's close provokes one; the first call after a reset reports
it and the second raises SIGPIPE. The server's texts are records that say what
they tell (`Welcome`, `Joined`, `Left`, `Said`, `Goodbye`), the clients' texts
are sequences of units.

`Sigint` may strike at any time: it only sets the flag, or it also interrupts
the call that is blocked.

### Producer and consumer

A thread is at the lock, at the test of its while loop, past it, in
pthread_cond_wait, waking up in it, or at the unlock. `owner` is the mutex. A
signal wakes any one waiter or is lost; `SpuriousWakeup` wakes a waiter without
a signal. The test and the work are separate actions, so that mutual exclusion
is something the model has to establish. An expression is its producer and
number; the two digits drawn at random, the printing and the sleep are left out.

### Semaphores and shared memory

A run is a parent and its children. `SysvIpc` keeps the kernel's objects: for
each identifier whether it is in use, its value and, for the semaphore, what the
end of each process would undo (SEM_UNDO); for the segment who is attached.
`create_semaphore`, `set_sem_value`, `del_sem_value`, `P` and `V` are the
functions of `semaphore.c`; P on a semaphore that is gone fails and the caller
goes on, because nobody looks at what P returns. `IpcRun` has the steps both
programs take with the same code: ftok to shmat, the label EXIT, P, load, store,
V, wait. A variable the C code jumps over (`shmid`) starts with any value. Every
call of the set-up and every fork may fail; any process may be killed at any
point, up to `MaxKills` of them. `Ipc` lets each run in a directory be of either
program, since they compute the same key.

### Threads under a mutex

`MutexRun` has what `mtsieve.c` and `mtsumarray.c` do alike: create, compute,
lock, load, store, unlock, join, print. `Sieve` adds the options one by one, the
checks after them, the cutting of the range in the loop that creates the
threads, and the sieve of one segment as operators: the low primes as the loop
leaves them, with the words of the array that are read without having been set,
and the index at which each of them starts crossing out. `ThreadSum` adds the
two shares, and what happens when a thread is missing.

### Lab programs

`Unix` keeps a table of processes: state, parent, program, where it is, its
variables, its descriptors and what was signalled. `Fork` copies all of it,
`Exec` keeps the descriptors, `Exit` leaves a zombie when there is a parent to
wait. A pipe is the lines in it; who holds which end follows from the
descriptors, so an end of file comes only when every copy of the write end is
closed. `At(p, prog, pc)` is the guard of every step: a stopped process does
nothing, and a pending SIGINT comes first.

`Pipelines` has the three programs with their children up to exec, and what is
executed as external filters that read all and then write; `pfind`, which
`spfind` executes, is `Pfind` itself. A read takes any prefix of what the pipe
holds. A child whose exec fails in `countprocess` goes on as its parent does,
because nothing in the code stops it.

`Minishell` numbers the lines that are typed, so that `ran` can tell which line
each fork was for. `buf` is kept between reads, because CTRL+D leaves it, and `p`
is not assigned before line 106. The handler may come at any step of the shell
and of a child before exec; it jumps to the prompt in either.

`Forks` and `Naps` have one action per call or per look at the flag. Children of
`forkexec` and `forkwithfile` are stopped, continued and killed from outside.
`slept` counts the sleeps that passed, which the programs cannot know.

`Lists` has the pointers. `insert_in_order` takes one step per node it passes;
`Forward` and `Backward` are the two ways to read a list. `AbstractList` is the
sequence they stand for, and `Labs` states the refinement. `Quicksort` keeps the
calls of the recursion still to come, and the variables of `lomuto`; `SortFile`
puts `main` around it, with the element that is freed past the end.

`Echo` uses `Tcp` for its connections. A byte is the number of its client and its
place, so that what comes back can be told from what another client sent, and
`server.buf` is all of the buffer, terminator and remains included. A terminal in
`GetString` gives a read no more than one typed chunk, ended by ENTER or CTRL+D.

Since these programs do not meet, `Labs` starts one of them, with any of its
command lines or inputs, and leaves the variables of the others alone.

## 3. Runs

| run | question | bounds |
|---|---|---|
| `chat_room` | do words reach the others complete and in order, does the table stay right, do the notices add up to it, does a recv block | 3 clients, 2 slots, 2 descriptors, 2 lines in all, recv of up to 2 units |
| `chat_live` | is a full server's refusal right, does everybody get an answer and every leaver go | 2 clients, 1 slot, 2 descriptors, 2 lines in all, fair |
| `chat_sigpipe`, `chat_interrupt`, `chat_leak` | what the code says of itself and does not keep | as small as shows it |
| `buffer` | is the buffer a bounded FIFO, is a wakeup lost, do main's joins return | 2 + 2 threads, 2 places, 3 expressions, 1 spurious wakeup |
| `ipc` | is a change of the shared integer lost, is the kernel left clean, does everybody end | 1 run, 3 children, 2 kills |
| `ipc_two` | what two runs in one directory do to each other | 2 runs, 2 children |
| `mutex` | do the segments tile the range, is an addition lost, is what is printed right | 1 to 4 threads, 32 command lines, ranges up to 361 |
| `mutex_square` | what a range that ends in a square is counted as | 1 thread, 30 numbers |
| `labs` | do the lab programs show what they should, and does each end | `PipeCap` 2 lines, 1 failed call, 2 signals, 8 files, 8 scripts of up to 3 lines, `nforks` of up to 3, 4 nodes, 4 elements, 3 typed chunks, 2 echo clients and `BUFLEN` 4, 3 ports |
| `labs_described` | can the descriptions of three lab programs all be wrong at once | `snooze 3`, 1 signal, 1 echo client with `BUFLEN` - 1 bytes, 1 port |

Why the bounds are enough. One slot and two clients make the server full; two
slots and three clients give every join and leave an observer and reuse a slot
and a descriptor, and two descriptors can run out; two units per recv are the
least that can cut a line from "bye" and join it to it. `MaxTyped` bounds the lines
that all people type together: two of one person can be cut and joined, and one
each of two can cross. A buffer of two places
wraps within three expressions per thread; two threads of each kind are the
least that steal each other's wakeups. Two kills are the least that end a holder
and the one it makes way for; three sleepers are done in every order relative to
the counting. Four threads and ranges of 1, 7, 8, 31 and 38 numbers give every
case of the remainder, a range shorter than the threads, segments below and
above their own low primes, and ends that are squares. Every chat run allows a
crash of each client and one SIGINT. In `labs`, two lines per pipe let a writer
wait and a read cut its output; `spfind` finds three files, so there are several
totals; one failed call can hit every fork and exec in turn; two signals reach a
child before its exec and the shell after it, or stop a child and continue it; a
tree of eight files has one more level than the walk needs to come back, a
directory that does not open and a file that cannot be examined; four nodes and
two words give equal words at both ends and in the middle; four elements give
every shape of the recursion, for all files over four different lines; chunks of
0 to 5 characters are shorter, just as long and longer than `sz` = 3; messages
of 0 to 4 bytes fill a buffer of 4 and exceed it.

`labs_described` starts `snooze`, an echo client with its server, and `findserver`
together. They share nothing, so each step is a step of one of them and the others
do not notice. Its property, `SomeAsDescribed`, says that in every state at least one
of `SnoozeSaysHowLong`, `FoundIfReceived` and `AcceptedIsSent` holds, each of which is what a
description in the source says of one program. TLC shows one state where none
does, and that refutes each of the three. `NapsReported` and `OutputRight`, which pass in
`labs`, do not take sides there: snooze may report what it slept or up to two
seconds more, `findserver` may or may not take a server that hangs up for the one it
looks for, and an echo client prints the beginning of what it sent, whatever that is.

The elements of the arrays are powers of two, so that a sum tells which of them
are in it. `INT_MAX` is 1023 in `mutex` and 3 in `labs`, which lets a number be too large.

Fairness. A process or thread that can run is scheduled (weak fairness of each),
and the network delivers resets. Nothing is assumed of people, of signals, of
which thread gets the mutex or the semaphore, or of which waiter a signal wakes;
calls may fail and need not. In `labs` also the alarm that was set rings, and
among the steps of the sequential programs and of the two on TCP, none of which
can go on for ever, some step that can be taken is taken. A child that is stopped
need not be continued: the programs that report on it are to end only if it does
not stay stopped.

`Ends` excuses what no order of steps can help: `countprocess` and `pipes` after a
call that failed, `pipes` when what `ps` prints does not fit into the pipe that
is not read before `ps` has ended, and an echo client whose message is empty.

Deadlock is not checked: the server waits in select for people who need do
nothing, and the other programs end.

## 4. Findings

* `chat_sigpipe`: a broadcast to a connection whose reset was already read
  raises SIGPIPE and ends the server, where the code prints a warning.
* `chat_interrupt`: CTRL+C between the test of `running` and select is noticed
  only when somebody connects or writes.
* `chat_leak`: a client that hangs up before its name leaves its descriptor open.
* `ipc_two`: two runs in one directory share the semaphore; the second sets it
  to 1 again, or the first removes it, and two processes add at once.
* `mutex_square`: the low primes end below the square root of the segment's end,
  so the square of a prime there is counted as a prime.
* `labs_described`, three programs that do not do what is written of them:
  * `snooze` counts a second before it sleeps it (snooze.c 63) and prints one or two
    more than it slept, where 22-31 say "how long it actually slept". `snooze 3`, with
    CTRL+C in its first second, says 2; left alone it sleeps 2 and says 3.
  * `findserver` takes a server that hangs up without a word for the one it looks for
    (findserver.c 87), where 74-76 say "If data is received".
  * a client of the echo server whose one argument has BUFLEN - 1 characters passes
    `msgs_too_long` (20), is not copied (client.c 74), sends nothing and waits for the
    server that waits for it, and everybody else waits behind it; the message of line 34
    allows "At most %d characters ... including '\\0'".

Seen while modelling, and allowed by the models without a run of their own: a
failed recv of the name registers the client under old text (chatserver.c 202);
"bye" received with the line before it is broadcast as text (267), and the
server's "bye" received with another message is printed as text (chatclient.c
248); a failed ftok lets EXIT remove whatever an uninitialised shmid names
(mpsumarray.c 186); word 1 of the sieve's uninitialised array, when not 0,
crosses out a whole segment (mtsieve.c 51), which `mutex` leaves out; CTRL+C
between fork and exec makes the child a second shell on the same terminal
(minishell.c 98), and CTRL+D runs the last command over and over (131), or what
the buffer held before there was one; a lone "cd" looks at an argument that
nothing wrote (144) and calls strcmp with NULL (150); a child of `countprocess`
whose exec fails goes on as a second parent, where line 30 says there is "no
point to do anything else"; `nforks` also prints that child -1 has
terminated when wait fails (nforks.c 130, against 120); `findserver` leaves
a socket open that it could not set up (37); `sort` frees one element past the last
(sort.c 125) and sorts doubles when it is given three arguments without a type;
`worker` forgets a signal that comes between its answer and its reset (37).

## 5. Proofs

Every theorem holds for all values of the constants that the modules' assumptions
allow (`ChatServerAssumption`, `IpcRunAssumption`, ...); TLC evaluates those in
the runs. A property is seldom inductive by itself. For each there is an
invariant that is: the initial states have it, each action keeps it (one lemma
per action), and it implies the property.

**Chat** (`ChatProofs`; any number of clients, slots, descriptors and
arrivals, any texts and any cut of the stream).

* `TypeCorrect`, `TableCorrect` and `SlotForAccepted` follow from `IInv`: where
  the one connection of each client is (`OneConnection`: behind one descriptor, once
  in the backlog, or not made yet), what the table's descriptors are (`Table`), what
  is known while a name is awaited (`Awaiting`: fewer members than slots, a
  descriptor no slot has), that the counter counts (`Count`) and that a reported
  server socket has a connection to accept (`Ready`).
* `NobodyDropped` and `RecvNeverBlocks` follow from `LinkInv` (both ends of a
  connection are up together; every open one is in the backlog, awaited or in a
  slot) and `RoundInv`, which says that a slot select reported still has something
  to recv until its turn. That needs every action of everybody between select and
  the slot to be `Calm`: it leaves readable what was readable.
* `RosterKept` and `ConversationKept` follow from `RoomInv`: nobody outside was told
  anything (`Blank`, `Unheard`), what the server has not read of somebody is the
  end of what was sent (`Ends`), the notices up to now name the members
  (`Rosters`) and nobody who never came (`Notices`), and what was heard of another
  plus what is unread is the end of what the other sent (`Talks`). The texts of a
  screen are concatenated with `FlattenSeq`, so lemmas first say what it does with
  one notice more.

**Producer and consumer** (`BoundedBufferProofs`; any number of threads, any
QUEUELEN and any MAX_EXPRS). `TypeCorrect`, `WakeupsKept` and `Refinement`. `Inv`
adds mutual exclusion, that what a thread found at its test still holds when it
works, that write_index is read_index plus the count modulo QUEUELEN, and that the
cells between them hold expressions; the refinement then needs two facts of
modular arithmetic, that cells less than a turn apart differ and that wrapping an
index early reaches the same cells. Each half of `NoLostWakeup` is inductive: a
step that adds an expression wakes one consumer of those that wait, and a consumer
stops coming only by taking one.

**Semaphores and shared memory** (`IpcProofs`; any number of runs, children,
elements and kills). `TypeCorrect`: above all the semaphore's value is never
negative, which is a matter of what the kernel undoes for the killed. `TInv` adds
a budget of kernel objects (there is always an unused identifier) and where each
parent's loop is.

The second part of the module assumes `OneRun`, which `ipc_two` shows to be
necessary: two runs compute the same key. `MutuallyExclusive` follows from `ExclInv`: as long as
somebody may use the semaphore it is 1 exactly when nobody is between P and V,
each process there and no other has one to give back if it is killed (`Guard`),
and once the parent cleans up at most one child is still at work (`Few`), so that
a P that fails on the removed semaphore lets nobody in beside another. `NothingLeft`
follows from `FreeInv`: the only object in use is the one the parent has the
identifier of. `NoChangeLost`, `SumPrinted` and `ReportRight` follow from `WordInv`:
what a process loaded is still the word when it stores (that is where mutual
exclusion is used), and the word is the sum of what was stored.

**Threads** (`MutexThreadsProofs`; any number of threads and processors, any command
line, array and memory). `TypeCorrect`, `MutualExclusion`, `NoAdditionLost`, `SegmentsPartition`
and `SumRight` follow from one invariant: the owner is the one thread between lock
and unlock (`Locked`), what it loaded is the total (`Loaded`), the total is the sum
over the threads that stored (`Totalled`), and the segments made so far lie one
behind the other in the sizes that quotient and remainder give (`Tiled`). `SumRight` also
has the threads that could not be created: what is printed then is the sum of the
shares of the others (`TotalOfShares`).

`SegmentsSieved` and `TotalRight` are about the sieve itself, so its loops are
reasoned about: what a low prime crosses out, that a composite has a prime factor
no greater than its root, and what `p < sqrt(end)` leaves in. They assume
`MemorySparesOne`, that word 1 of the uninitialised array is 0 (otherwise 1 crosses
out the whole segment), and `TotalRight` excuses a segment that ends in a
square of a prime that has two 3's itself. Section 4 has both: without them the properties are false.

**Lab programs** (`LabsProofs`; any number of nodes, operations, elements, chunks).

* `LinesReturned`: `GetInv` has what is left of the input as the end of what was
  typed, whether the next chunk begins a line, and that each line before it was
  returned once, in order.
* `ListsInOrder` and `ListsRefine`: `ListInv` says that there is a sequence `s` without
  repetition which `next` follows from `head` and `prev` from `tail`, with the walker of
  `insert_in_order` at one of its nodes and every node before it smaller. The two
  readings are then both the data along `s`, and each action inserts, removes or
  frees at one place of it (`ItemsStep`), which is what `AbstractList` allows.
* `Sorts`: `SortInv` says that the array has as many of each element as the file
  (`SameCounts`, kept by every swap), that the pending calls are disjoint windows
  (`WindowsIn`), that two places not in one window are in order (`InOrder`), and what
  lomuto's loop has parted so far (`PartIs`). A pivot's rank is then the number of places
  before it.
* `NetworkRight` (half of `OutputRight`), any number of clients and ports, any
  messages: `EchoInv` says of each client that it is linked to nobody before it
  connects (`Unlinked`), that while it is in the backlog or served both ends are up
  with nothing sent back yet, or it has closed (`Connected`), that once its turn is over
  what it may still read is a buffer that begins with its message (`Answered`), and
  how the server's buffer came about while it is being filled: a beginning
  of this client's message, a NUL, and what others left (`Filling`). The NUL that the
  server sets is what keeps the client from printing the rest (`SaidOk`).
  `FindInv` has every port before the current one as late or without a server, and no
  socket left over when the next is made, so no server that answers in time is passed over. `EchoAssumption` says that the arguments are
  sequences of lengths.

**Types of the labs** (`LabTypesProofs`). `LabTypes` is `Labs!TypeOK`, for which no
invariant of one program is enough: it follows from `ListInv`, `SortInv`, `GetInv` and
`EchoInv` of `LabsProofs` with `ProcInv` and `OnceInv` of `ProcessProofs`, and three facts
of its own (what is listed of an empty table, who runs, and that a result other than
a line has no length).

**Processes** (`ProcessProofs`; any number of processes, of lines a pipe holds, of
failed calls, signals and scripts).

* `ProcInvariant`: in every program on `Unix` the process table is of its types
  (`UnixOK`), a process executes only what the program at hand starts (`KinOK`), the
  variables of a shell are set where they are used (`ShellsOK`), and the terminal holds
  lines that were typed (`TtyOK`).
* `CommandWaitedFor`: a minishell that is back at its prompt, and was not thrown there
  by CTRL+C, has had the end of the child it waited for. `FgInv` says of each shell that
  `p` is the last fork's child from line 106 until the wait is over, and that this
  child is gone from then to the next fork (`Settled`); it has to be said of every
  process that runs minishell, because a signal between fork and exec makes a second
  one, and without signals there is one (`Still`).
* `LinesRunOnce`: unless CTRL+D was pressed, no line is run twice, and without signals
  each command that was read is run, in the order typed. `OnceInv` has the lines not yet
  read as the end of what was typed (`KeysInOrder`), a line that a shell is about to
  fork for as one nobody forked for (`PendingOnce`, `RanOnce`), and, without signals,
  the lines run as exactly those owed (`RanInOrder`). It assumes that scripts are
  sequences of the texts (`MinishellAssumption`).
* `NapsReport`: `NapInv` says by how much the seconds counted and those slept differ at
  each place of the loops of snooze, and that the primes counted by signals and alarms
  are those up to the last number tried. The handler may set the flag at any step
  (`Disturb`); only while no signal came is it known to be down.
  `WorkerInv` says that worker has shown fewer answers than signals came while one is
  unanswered, and never more. Only one process runs (`Lone`). It assumes that
  the arguments are numerals (`NapsAssumption`).
* `ChildrenReport`: `WaitInv` has the one child of forkexec and forkwithfile on its way or
  waited for, as the parent's place says, and the lines shown before its end as reports of
  stops. `ForksInv` counts: at each turn of nforks' two loops as many children are
  running or zombies as `i` and `n` say, all of them its own, and a process that is gone
  is one that was reported, once (`Told`). At the end of the second loop none is left, and a
  parent whose fork failed has reported nobody, since it reports only behind its
  last fork. It assumes that the arguments are numerals (`ForksAssumption`).

Sums and concatenations are over data of any size, but induction with an
operator as parameter is not available; they are done over sets of numbers
(`{n \in Nat : ...}` is all of Nat when it has 0 and is closed under successor),
in `SumsProofs` for sums.

Only model-checked: liveness (`Termination`, `Ends`, `LeaverFreed`, `Answered`,
`Consumed`, `ClientsFollow`), since fairness and ENABLED are out of the prover's
reach; and the other half of `OutputRight` (`PipelineShows`), which compares what the
external sort, grep and find write with definitions that sort and filter
sequences: its proof is an induction over those data.

## 6. Plan

1. Done: chat, producer/consumer, semaphores with the shared sum and the
   sleepers, the threaded sieve and sum; minishell and the programs that fork,
   pipe and catch signals; lists, quicksort, permission finder and get_string;
   the echo pair and findserver.
2. Proved: every invariant, action property and refinement that a run checks,
   but for `PipelineShows`, and the types of every component.
3. Left to TLC: `PipelineShows` and liveness, for the reasons in section 5.

## 7. Not modelled

Of the modelled programs: the wording of messages, standard error, terminal
control and C buffer sizes; the chat programs' argument parsing; what pipes
carry below a line (so the `count == 1` of pipes.c 39 cannot happen: what `grep
-l` prints is longer); failures of pipe, dup2, close, read and sigaction; a
current directory that cannot be printed; primestest with a fork that fails,
whose kill(-1) would reach every process of the user.

Not at all: the single-process exercises that read, format or print one thing,
the demonstration of two threads that share nothing, the ncurses login, the
borrowed chat clients, earlier versions of modelled programs, scripts and
binaries. `PROJECT.json` lists them with their reasons: nothing in them happens
in an order that a test could miss.
