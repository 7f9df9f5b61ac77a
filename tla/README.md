# A verification project for SIGSEGV

SIGSEGV is a collection of programs: kernels and a kernel driver, a shell, a
program runner, servers, simulators, and course exercises in a dozen languages.
They share no library and do not call each other, so the project has no single
system model. It takes the programs one by one, in the order of how hard they
are to test: those with threads, processes, interrupts or callers that
interleave first, then the sequential ones with long-lived state, then pure
algorithms.

The specifications are written from the code. Each definition that stands for
code is listed in `PROJECT.json` ("map") with the lines it stands for.

## 1. Inventory

| Component | State it keeps | Operations | What is hard | What makes it correct |
|---|---|---|---|---|
| `OS/SemaphoreProdCons.c` | `bffr`, `count`, three semaphores | the loops of two threads | interleavings; `count` is never tested | bounded LIFO buffer, no deadlock |
| `OS/MonitorProdCons.c` | `bffr`, `count`, a mutex, two condition variables | the loops of two threads | spurious wakeups, signals nobody waits for | bounds, no lost wakeup, what is consumed was produced |
| `OS/SemaphoreDinPhilo.c` | a mutex and a semaphore for each fork | the loop of each philosopher | circular waiting, forks returned without the mutex | fork exclusion, no deadlock |
| `OS/SemaphoreReadWrite.c` | two semaphores, `readCount` | the loops of readers and writers | a reader that waits while it holds the mutex; last reader out | writers alone, no deadlock |
| `CppDump/deadThreadPool.cpp` | `threadCount`, a mutex, a condition variable, 50 threads | start, worker, join | notifications, the limit, termination | limit kept, nobody oversleeps, `main` returns |
| `OS/SchedSim.cpp` | queues of processes, two devices, tick counters | one tick; the next scheduler | order of events within a tick, unsigned counters, erasing while iterating | no process lost, each scheduler's rule, termination |
| `OS/SJF.cpp`, `SRTF.cpp`, `RR.cpp`, `VRR.cpp` | as above, one scheduler each | one tick | as above | the schedule of SchedSim |
| `GoDump/echoServer/main.go` | the map of connections, a WaitGroup, a mutex | accept loop, one goroutine for each connection, shutdown | shutdown against accept, a blocked sweep, order of deferred calls | bookkeeping exact, no echo lost, shutdown ends |
| `bone/bone.cpp` | `pid` and `isExecuting`, file times, the terminal's foreground group | respawn by the monitor thread, keys and waiting by `main` | two threads without a lock, job control, edits during a build | one program, each edit built and executed |
| `Kernel/ringBfr` | a queue for each device, with an array of strings | `ioctl`: set size, push, pop | unlocked calls that sleep, failing copies, index arithmetic | a ring buffer; nothing read that is not its own |
| `Kernel/viOS` | the grid, its dirty rows, two cursors, the mode, the status line | printing by the first process; motions, insertion and deletion by the keys | interrupts between any two statements of the first process; shifts at the ends of a line | the screen shows the grid, a deletion undoes an insertion |
| `dlsh`, execution | instructions, programs, the foreground group, open pipe ends | parse, start, hand over the terminal, wait, drain | ends of pipes closed too late, groups that read before they own the terminal | terminal and files are back at each prompt, each line ends |
| `dlsh`, line editor | line, cursor, history, trie and heap of suggestions | keys, suggestions, saving | three buffers that must agree, indices of the heap | nothing typed or entered is lost |
| `CN` | a connection | chat in turns, a calculator | both ends waiting, lines in parts | each line heard once and in order, the answer of the turn |
| `OS/shm*.c`, `OS/pipes.c` | shared memory, two pipes | write, read, acknowledge by a mark | no synchronisation but the mark | what is read was written |
| `DS` | AVL, search and B-trees, heaps, queues, lists, sparse matrices | insert, delete, split, sort | rotations, relinking, indices | order, balance, no element lost |
| `DPPL/ExtremelyBigInt.cpp` | blocks of 18 digits | assignment, +, -, *, /, < | carries and borrows, zero blocks | the numbers' own arithmetic |
| `DPPL/Heap.cpp` | a heap of nodes, a free list | insert, remove | nodes used again | each node in one place, heap order |
| `CNS/des.cpp` | the two halves of a block | sixteen rounds, either way | tables of numbers, an order of round keys | what is decrypted is what was encrypted |
| `CDump/turingmachine*.c`, `DFA.c` | tape, head, state; a machine read from TOML | load, move | the ends of the tape, sections in order | the machine's definition |
| `Kernel/charDevice.c` | a size that is never set | open, read, write | | see section 9 |
| `GoDump/advAutoComp`, `autocomplete`, `layoutEngine` | a trie and a heap; boxes | search; wrap | | see section 9 |
| everything else | | | | see section 9 |

No two of these programs interact. Within a program the parts interact through
shared variables (the labs, `bone`, viOS), calls into a handler without a lock
(`ringBfr`), channels and a WaitGroup (`echoServer`), sockets and pipes (`CN`,
`OS`), or processes, signals and the terminal (`bone`, `dlsh`).

The hazards, each at the line where it bites, are listed under "hazards" in
`PROJECT.json`, with the properties that cover them or the reason why none
does.

## 2. Modules

| Module | What it is |
|---|---|
| `BoundedLifo` | the abstract bounded LIFO buffer, with the producer's next item |
| `LabConstants` | the parameters of the five pthread programs and their assumptions |
| `SemProdCons`, `MonitorProdCons`, `DinPhilo`, `ReadWrite`, `ThreadPool` | one pthread program each |
| `MCPthreadLabs` | the five checked in one run: extends `SemProdCons`, instantiates the others |
| `SchedSim`, `Schedulers`, `MCSchedSim` | the scheduling simulator; the four programs it was made from, on the same state; the workloads for TLC |
| `EchoServer`, `MCEchoServer` | the echo server with its clients; its instance for TLC |
| `Bone` | bone, the programs it runs, the terminal and the user |
| `RingBfr` | one device of the driver and its callers |
| `ViTerminal` | the terminal of viOS with the first process and the keyboard |
| `MCKernels` | the two programs of `Kernel` checked in one run: extends `RingBfr` and `ViTerminal` |
| `Lab` | which exercise a behaviour executes (`lab`), and the calls its `main` has still to make (`todo`) |
| `SearchTrees`, `Heaps`, `Lists` | the programs of `DS` |
| `NodeHeap`, `BigInt` | two programs of `DPPL` |
| `DES`, `Turing` | `CNS/des.cpp`; the machines of `CDump` |
| `Peers` | the pairs of processes of `CN` and `OS` |
| `DlshExec`, `DlshLine` | the shell: execution of a line, and its line editor |
| `MCLabs` | the programs from `SearchTrees` down checked in one run |
| `PthreadLabs_proofs` | theorems about the five pthread programs, each for itself and as executed by `MCPthreadLabs`, with TLAPS proofs |
| `SchedSim_proofs`, `EchoServer_proofs`, `Bone_proofs`, `RingBfr_proofs`, `ViTerminal_proofs`, `DlshExec_proofs` | theorems about the module in their name (for `SchedSim_proofs`, also `Schedulers`), with TLAPS proofs |
| `Labs_proofs` | theorems about `DES` and `Peers`, with TLAPS proofs |

Definitions whose name has a suffix after an underscore (`ConsLoad_Top`) are
wrong versions of the definition before the underscore, each a plausible slip
in that code. They occur in no specification; "mutants" in `PROJECT.json` says
which property notices which of them.

### The pthread programs

A step is one call of a semaphore, mutex or condition variable, or one access to
shared memory. `bffr[count++] = item` is two steps, because it loads and stores
`count`: that the semaphores keep the other thread out in between is what has to
be shown, not assumed. The sleeps lie between steps. The threads are created
before anybody runs, except in `ThreadPool`, where `main` starting and joining
the threads is part of the behaviour.

`pthread_cond_wait` and `cv.wait` may return spuriously, `MaxSpurious` times in
a behaviour. No semaphore or mutex is fair: a `sem_post` makes the semaphore
available to anyone.

`MonitorProdCons` follows the code in that the consumer reads `bffr[count--]`,
one slot above the item stored last. When the buffer is full that slot lies
outside the array; the value read is then any item or `Outside`.

`MCPthreadLabs` has a variable `lab` that says which program is executed; the
others stay in their initial states. This checks five programs in one run and
nothing about them together, since they share nothing.

### SchedSim

A step is one iteration of the loop in `Processor()`: arrivals, the CPU, the IO
device, the scheduling decision, the counters. The functions it calls are
operators from a device record to a device record, in the order of the code.
`FreshArrivals` erases from the vector that its range-for iterates over. The
model does what the compiled loop does: it visits as many positions as there
were at the start, each erasure moves the later elements up, and the last
element stays readable behind the end. With two arrivals in one tick it may skip
one or take one twice, so the properties about losing nobody are stated for
lists with distinct arrival times (`Distinct`); the rules of the schedulers hold
for all lists. The priority queues may order equals in any way. `size_t` counts
modulo `Word`.

`Schedulers` has the four programs of which SchedSim was put together, written
as what each does differently from SchedSim's operators. `SameSchedule` then
compares each of their ticks with the ticks SchedSim could make.

### EchoServer

Main's accept loop, the goroutine of the interrupt and one goroutine for each
connection, with the mutex, the map, the WaitGroup and the deferred calls in the
order in which Go runs them. A client connects once, sends numbered chunks,
reads, stops reading or leaves, at any time; a socket holds `Room` unread
writes, and a write to a full one waits. The sweep first takes a connection from
the map (`NextConn`) and then writes to that one, however long it takes. `heard`
is what a goroutine has written to its client; the farewell of the sweep may
fall anywhere between and is kept separately (`told`). After the process has
ended nothing is modelled.

### Bone

`main` and the monitor thread share `pid`, `isExecuting` and the terminal
without a lock; a step is one access to one of them, or one system call. A
program is a process of its own from `fork` on: it moves the terminal to its own
group, executes whatever executable is on disk then, runs, reads the terminal,
exits. `giveTTY` and `getTTY` are one step each: the attributes they set go with
the owner, and the moment in which `getTTY` ignores SIGTTOU is not modelled.
`main` asks whose the terminal is before it reads a key (`PauseTest`,
`ReadKey`); a read after the terminal was given away in between stops bone
itself. `fork` and the store of its result in `pid` are one step. Left out are
the use of the old `pid` by the other thread in between, programs that handle SIGTERM, an executable that is deleted while bone runs, and a `waitpid(-1)` that
collects the compiler in place of the program. The compiler reads the source in
one step and writes the executable in another, so that edits fall before,
between and after. `Habits` is the set of keys that a user may type: `{}` or
`{"r", "q"}`. The key `p` that `bone.cpp:45` announces is handled nowhere in the
code, so it changes nothing in the model either. `Timely` restricts a violation
run to the usual timing, so that its counterexample does not need an unlikely
schedule.

### RingBfr

The handler is split where it can sleep: at the copies from and to user memory
and at the allocations. A slot of the array is NULL, memory of the caller, or a
kernel buffer. The array is modelled from index -1, because the first push
computes that index (C's remainder keeps the sign, `CMod`). Accesses through a
freed queue or an array that was not allocated, a remainder by zero, a string
for which there was no memory and a `kfree` of the caller's own pointer, which a
push leaves in a slot when its second copy fails, end the caller (`Crash`).

### ViTerminal

The first process clears the screen, draws the status line, prints its banner
and is idle from then on; the keyboard interrupts it between any two of its
statements that touch what both use: the store of a character, its mark, the
moves of the cursor, the count of the lines, the mark of the new row, and for
each row of a flush its test, its copy and the end of its mark are steps of
their own. A key is one step, since the handler runs with interrupts off. Some
statements are kept whole:

* `total_lines++` is one instruction of the i386 that viOS is built for, so that
  no count is lost to an interrupt; what an interrupt does see is a cursor that
  is ahead of the count;
* the address computation and the store of `buffer[row][col] = c`;
* the `memcpy` of a row: a row that a key interrupts is still marked, and the
  key copies it too;
* the cursor's row and column, which are saved, restored, moved to the status
  line and handed to the hardware together. A compiler may keep them in
  registers for longer than the model does.

At most one key arrives per character printed: with two, a row may stay
unflushed (section 8). The grid is one array, as in memory. The last row of the
screen is the status line's. A character typed behind the last column would go
to the next row, which is not marked then; such keys are left out, and so are
those that would leave the screen, where the code writes behind `dirty`.

### The exercises

`MCLabs` starts one program in each behaviour and calls its operations: those of
its `main`, in order, where `todo` holds them, and any others over a few values
otherwise. A recursive function of the code is a recursive operator here,
except in the modules about which something is proved. What
the code computes wrongly is computed by the model too, and the properties say
for which calls the result is right; section 8 lists what was met.

* `SearchTrees`: the AVL tree is filled first and emptied then, as by its
  `main`; insertions after a deletion are not modelled. `phase` becomes
  "disorder" when a deletion in `AVLTree.c` has put the maximum of a right
  subtree on top of it.
* `Heaps`: arrays are sequences; elements that compare equal are told apart by
  their arrival.
* `Lists`: the lists of the mains and any short ones; a pass over one digit,
  which distributes the nodes to the containers and remakes the list, is a step.
  The reversal of the negative numbers in `radixSortNegative.c` works on links,
  and is modelled on links.
* `NodeHeap`: the free list as the links of the code, node by node.
* `BigInt`: a block has base `HALF`^2, and a loop that never ends is a
  computation without a result (`stuck`).
* `DES`: bits, tables and rounds as in the source, with nothing scaled down.
* `Turing`: loading one section of the file is a step, and each move of a head.
  A line of a file is the sequence of its words; that `getline` leaves the old
  line in its buffer at the end of a file is not modelled. Five kinds of files
  that do not load are among the inputs.
* `Peers`: a connection is a stream, and a read takes any part of what is on the
  way. The requests and answers of the calculator are read whole.

### dlsh

In `DlshExec` a line is a sequence of tokens, of which the first word of a
command is all that matters: a program, one that does not exist, `cd` in its
variants, `exit`. The shell is one process, stepping through its instructions;
each program is another one from `Start` on, which ends, is stopped for reading
a terminal that is not its group's, or waits at a pipe. The pipe ends that the
shell holds are part of the state, because they decide who waits; the files that
redirections open and nothing closes (`instructions.go:186`, `197`) decide
nothing and are not counted, and ends that a broken pipeline leaves open are
taken as collected by Go's finalizers when the next line is read.

In `DlshLine` a line is one of `Keyed`, typed character by character. The trie
is the set of the entries, each node named by the line it stands for; the
suggestions are the heap of the code. Several sessions follow each other over
one history file.

## 3. Runs

| Run | Bounds | What it shows |
|---|---|---|
| `pthread_labs` | `BS` = 3, items modulo 4, 2 spurious wakeups, 5 philosophers, 5 readers, 2 writers, 4 workers with `maxThreads` = 3 | every safety and progress property of the five programs, and the refinement `SemProdCons` => `BoundedLifo` |
| `sched_sim` | 3 processes, arrivals 0..2 in every combination, three sets of bursts, quantum 5; each scheduler alone, vrr followed by rr, and the four older programs, these also with the list of their `main` | the rules of each scheduler at every tick, conservation, the statistics, termination, and that the older programs make the same schedule |
| `echo_server` | 2 clients, one sending up to 2 chunks, `Room` = 1 | bookkeeping, order of echoes, shutdown, no leak |
| `bone` | 2 edits, 3 programs, both kinds of users, failing compilations and forks, any timing | one tracked program, builds built and executed, prompt and terminal come back |
| `kernels` | the driver with one caller, capacities 0..4, arrays above 3 cannot be allocated, 3 strings; viOS with 4 columns, 3 rows, one character and NUL typed, one line | reads inside the array, nothing from a previous queue; the screen shows the grid, lines are counted, typing can be undone |
| `labs` | 7 keys and `M` = 5 for the trees; 3 values and arrays of 6; all lists of up to 4 of six numbers; a free list of 4; `HALF` = 2, numbers up to 80; 5 texts; tapes of up to 7 cells; 4 parts said; command lines of up to 3 of eight tokens, 4 and 5 of four; 6 lines typed, 3 entries | each exercise keeps its structure and computes what it should; the shell hands the terminal on in order, loses no line and comes back to its prompt |
| `monitor_consumed` | `BS` = 3 | violation: "Consumed" is not an item of the buffer |
| `ring_bfr_order` | one caller, capacity 3 | violation: not first in, first out |
| `ring_bfr_readers` | two callers, capacity 2 | violation: a pop that passed the test finds the queue empty |
| `heaps_priority` | three items, arrays of 4 | violation: the task entered last is printed last, however urgent |
| `bone_rebuilt` | 2 edits, `Timely` | violation: an edit during a compilation is never built |
| `bone_executes` | 1 edit, `Timely` | violation: main takes the terminal from the new program, which is stopped |

Why the bounds are enough. A buffer of three slots has a first, a middle and a
last one, and four item values tell any three consecutive items from the one
before them. Five philosophers, five readers and two writers are the numbers in
the code. Four workers on two places leave two asleep when one is woken. Three
processes are the fewest with which one runs, one is preempted and one arrives
or returns in the same tick; the bursts include a process that outlasts its
quantum. Two clients are what is needed for one to block the sweep while the
other leaves. Two edits are one during the compilation of the other. Capacities
0 and below are refused, 1 is the case where `front` and `rear` coincide, 4 is
above the allocation limit. Four columns have a line that is empty, partly
filled, full but for one and full; three rows are the status line, a first and
a last one. Seven keys split and merge the root of a B-tree of order 5, and make
all rotations of an AVL tree. With blocks of base 4 every carry
and borrow between the halves of a block and between blocks happens, and 80
needs four blocks. Lists of four numbers of both
signs and of one and two digits have every split. A command line of five tokens
is the shortest with two operators between three commands.

Bounds in guards: `MaxSpurious`, `MaxTicks`, `MaxChunks`, `MaxEdits`,
`MaxPrograms` (after which fork fails), `MaxLines`, `MaxValue`, `MaxBlocks`,
`MaxSaid`, `MaxEntries`. The deadlock check is disabled where the system really
may stop: callers of `ringBfr` may all have crashed, bone may have exited or be
stopped with its programs, the exercises end, a shell ends, and viOS is left
without further keys.

## 4. Fairness

Weak fairness only, of each thread, goroutine or process that the operating
system or the Go runtime schedules: the two threads of a producer/consumer
program, each philosopher, reader, writer and worker, `Main`, `Signal` and each
connection's goroutine of the echo server, `Main`, `Monitor` and the `exec` of a
new program in bone, the loop of the simulators, the shell in `DlshExec` and
each program of a line that can finish. Nothing is assumed of
semaphores, mutexes, condition variables, clients, users, programs that are
running under bone or the moment of a signal. So `Progress` says that somebody
gets on, not everybody: a writer may starve behind readers, and a philosopher
behind its neighbours until it gets the mutex (`HolderDines`, a part of
`Progress`, says that from then on it dines). That a program of a shell's line
ends is assumed because the property is about the shell: one that runs for ever
keeps any shell waiting.

## 5. What the properties say

The comment above each property states it. The ones worth a word more:

* `ImplementsLifo`: with the item moving out of the producer's hands when
  `count` is stored, and out of the buffer when it is loaded, every behaviour of
  the semaphore program is one of the abstract buffer.
* `ShutdownEnds`: after an interrupt `main` returns, unless a client does not
  read while the sweep or an echo writes to it (`Stalled`), or was accepted
  before the listener was closed and put into the map after the sweep
  (`Missed`). Both exceptions are behaviours of the code; they are hazards, and
  no statement of the repository excludes them.
* `Tracked`, `Executes`: claimed for a user who does not restart the program by
  key; with `r` the two threads may both pass the test of `isExecuting`.
  `Executes` excuses what `Hung` and a failed fork explain.
* `Prompt`: when the program has ended, `main` gets back to the keys and the
  terminal leaves the dead program's group, unless something was stopped.
* `Rebuilds`: an edit is built if the monitor sees it while no compiler runs.
  Without that condition it is `Rebuilt`, which fails (`bone_rebuilt`).
* `PopReadsInside` holds although `front` is reduced modulo the fill instead of
  the capacity: it never gets ahead of the fill. What it delivers is not the
  oldest item (`ring_bfr_order`).
* `ShortestRuns`: `sjf` starts a process that no ready one undercuts, the earlier
  of two equals, and takes the CPU from nobody; under `srtf` what runs has least
  left at the end of every tick. The tests of ties are at the moment in which a
  process gets the CPU.
* `SameSchedule`: tick for tick, except what only statistics read. `SJF.cpp` and
  `SRTF.cpp` order their IO queue and SchedSim does not, so for these two it is
  claimed while nobody waits there.
* `ScreenCurrent`: while the first process prints, the screen may lag behind the
  grid; the property is about the moment after the last key. It excuses a first
  process that has put a character behind the end of a line (`outside`): while
  the status line is printed, `$` puts the cursor behind its last column, for it
  is filled with blanks, and after `k` twice the next character of `term_putchar`
  is in a row that is not marked. Nothing draws that row until it is marked again.
* `LinesCounted`: a cursor below the lines counted, which every motion would then
  clamp, could come from the first process putting back a cursor that it saved
  before keys moved lines, or from a row that is ahead of the count when a key
  reads both. The property is about the idle first process: before, the row may be
  ahead by a line that is still to be counted.
* `TypingUndone` excludes typing before the last character of a line, which
  overwrites it, and lines without two free columns, of which a typed character
  pushes the last one out.
* `LineEnds` excuses the two ways in which the shell really hangs: a program
  that reads the terminal before `tcsetpgrp` is stopped, which `Wait` does not
  notice, and a program whose reader has ended (`yes | head`) fills the pipe
  while the shell keeps the reading end open (`Choked`).
* `TerminalHeld` is about the terminal and the pipes of lines whose pipelines
  are `Whole`. Otherwise a program of a pipeline that cannot be started leaves
  the terminal with those before it, and a `cd` in a pipeline behind `&&` closes
  the shell's own input and output.
* `LineKept` excuses a line edited on an entry of the history (`edited`): what
  Down brings back then is older.
* `HeapsKept` includes that `priorityQueueHeap.c` prints its tasks by priority,
  all but the one entered last; with that one it is `TasksInOrder`, which fails
  (`heaps_priority`).
* `BigNumbersAgree`, `SearchTreesKept`, `HeapsKept` and `ListsAgree` say in their
  comments for which calls they hold; `PeersAgree` holds for a consumer that
  comes while the producer waits (`calm`) and for chats without empty lines.

The type invariants of the pthread programs are checked as a part of their first
property, those of all five and of `EchoServer`, `Bone`, `DES` and `RingBfr`
are also proved.

## 6. Findings

1. `MonitorProdCons.c:51` reads `bffr[count--]`, the slot above the top.
2. `ringBfr.c:94` computes index -1 for the first push, and line 135 reduces
   `front` modulo `size`.
3. `ringBfr.c:119` tests `size` and uses it after copies that may sleep.
4. `bone.cpp:222` compares file times: an edit made during a build is older than
   the executable it is missing from.
5. `bone.cpp:142`, `236` and `268`: `main` leaves its loop on `isExecuting`
   before the new `pid` is stored and takes the terminal back from the new
   program.
6. `priorityQueueHeap.c:37` sifts one task less than is left: the task entered
   last is printed last, though line 78 says that the higher priority comes
   first.

## 7. What is proved

TLAPS proves the following for every value of the constants. The modules name
the assumptions on them, and each is one the code justifies:

* `LabConstants`: at least one slot, item and worker, two philosophers,
  `maxThreads` at least two, finitely many readers that are not writers.
* `SchedSim`: a quantum of at least one tick; `MaxTicks` below the range of
  `size_t` (`WordAssumption`: a run is shorter than 2^64 ticks); processes with
  an id, and arguments that name a scheduler.
* `EchoServer`: finitely many clients, a socket buffer with room for at least one
  write. `Bone`: at least one program can be forked. `RingBfr`: capacities are
  integers, whatever their sign.
* `ViTerminal`: the screen has a row and a column (`ScreenAssumption`), and a key
  that types a character is not one of the control keys (`TypedAssumption`).
* `Peers`: lines are sequences of parts (`LinesAssumption`); the alphabet is not
  empty and has no `0`, which ends what the producer writes
  (`AlphabetAssumption`: it writes letters and bars).
* `DlshExec`: lines are sequences of tokens (`CommandLinesAssumption`).
* `DES`: the permutations `ip_table` and `ip_inverse_table` are inverse to each
  other, and each row of an S-box is a permutation.

The two theorems of `RingBfr_proofs` have one hypothesis more, `OneCaller`: the
driver takes no lock, and with two callers both properties are false
(`ring_bfr_readers`).

| Theorem | Statement | Inductive invariant |
|---|---|---|
| `PthreadLabs_proofs!TypeCorrect`, `Exclusion`, `InBounds` | of the semaphore program: types, mutual exclusion, both indices in bounds | `IInv`: `empty` + `count` + what the threads hold or owe = `BS`, likewise `full` and `mutex`; the register of a thread inside equals `count` |
| `PthreadLabs_proofs!RefinesLifo` | `Spec => Lifo!Spec` | the same; the buffer seen through `count` is the abstract stack |
| `PthreadLabs_proofs!LabPredicateHolds`, `LabNoLostWakeup` | of the monitor: the predicate holds at each use; no lost wakeup | a thread is inside exactly when it holds the mutex, so nobody changes `count` between its test and its use |
| `PthreadLabs_proofs!LabForkExclusion` | no fork in two hands, for any number of philosophers | a fork in a hand has its semaphore at 0; at most one philosopher reaches |
| `PthreadLabs_proofs!LabWriterAlone`, `RWCounting` | a writer is alone; `readCount` exact; only the first reader waits | the reader inside a critical section owns `mutex`; `writing` is 0 while somebody reads or writes; `readCount` is the cardinality of the readers between their two critical sections |
| `PthreadLabs_proofs!LabThrottled` | `threadCount` is the number of workers that hold a place, and below the limit | the count itself, with the workers still to be created outside it (`ToCome`) |
| `SchedSim_proofs!NeverIdles`, `RunsShortest`, `KeepsQuantum` | the rules of the schedulers, for any lists and arguments, whatever `FreshArrivals` loses | `Inv`: the types of all queues, and what the scheduler named by the arguments keeps between two ticks: nobody ready beside an idle CPU, nobody waiting with less left (srtf), the quantum used up at most (the quantum saved counted in). `RunsShortest` is about steps: what is taken from the ready queue is shortest (`Chooses`), and `sjf` takes only when the CPU was left (`Left`) |
| `SchedSim_proofs!NobodyLost` | no process lost or doubled, for lists with distinct arrival times | the processes of all places, as a sequence of ids without repetition that holds each id once; `FreshArrivals` is shown to find at most one arrival per tick, for which its erasing loop is right (an induction over the positions that it visits, `Visited`) |
| `SchedSim_proofs!AddsUp` | `Accounting`: busy ticks are executed bursts, the times of completed processes are consistent, no unsigned difference wraps around, for the lists that are `Computable`: not empty, bursts from 1 to `Word` - 1 (a burst of 0 wraps around at its first tick, an empty list at the first `ticksCPUIdle--`) | `Reckoned`: between two ticks the books are settled (`Settled`), within one the CPU is a tick ahead (`Booked`); each place holds processes that are new, waiting, begun, running or ended (`NewProc`, `Waiting`, `Begun`, `Running`, `Ended`), each with its bound on the ticks since it began. The sum of the executed bursts is a recursive function, of which an induction shows what an element and a concatenation add (`SumsFunction`, `SumsStep`, `SumConcat`) |
| `SchedSim_proofs!MakesTheSchedule` | `SameSchedule`: tick for tick `RR.cpp` and `VRR.cpp` make the schedule of the scheduler of SchedSim that was made from them, `SJF.cpp` and `SRTF.cpp` while nobody waits for their IO device, for all lists and quanta | within a tick the two Devices are `Twins`: only what a process that blocks has saved of its quantum sets them apart, so only the IO queue and the IO device may differ, and not what the scheduling reads. Of VRR nothing differs; of SRTF all that `top()` may return have the same rest (`FirstIsShortest`), so both preempt or neither does |
| `EchoServer_proofs!TypeCorrect`, `MapExact`, `WaitGroupExact`, `EchoOrder` | types; the map is exact; `main` returns only when all is closed; echoes in order | `IInv`: the WaitGroup is the cardinality of the unfinished goroutines (`Counted`); the connection `main` holds has none yet (`Accepted`, `Newborn`); an open connection has a goroutine that will close it, or is about to get one (`Kept`); a client that is there has heard one message more than was read, or as many while an echo is due (`Answered`) |
| `Bone_proofs!ProgramTracked` | never more than one program, the one whose `pid` is shared; types | without the key r, `main` spawns only before the monitor exists (`MainFirst`), and whoever is about to fork has no program left (`NoneLeft`) |
| `RingBfr_proofs!ReadsInside`, `Recent` | a pop reads inside the array; what it delivers was pushed into this queue | `IInv`: where the caller is, the queue is what its next step expects (`CallOK`); `front` is a slot and `size` what was pushed and not popped (`LiveOK`); a slot holds nothing from before the allocation (`SlotsRecent`) |
| `ViTerminal_proofs!CursorInLines` | the cursor is never below the lines counted | `LinesInv`: while the first process has moved the cursor to the status line, the cursor it saved is among the lines; every operation may count lines and forgets none (`Keeps`) |
| `ViTerminal_proofs!BackspaceUndoes` | `Spec => TypingUndone`: a backspace takes back the character typed before it | the terminal's record and the cells of its buffer (`Term`); the two shifts are inverse to each other on a line with two free columns |
| `ViTerminal_proofs!ScreenFollows` | `ScreenCurrent`: after a key, the screen of an idle first process is the grid, with the cursor and the status line as they are, unless that process has put a character behind the end of a line | `ScreenInv`: rows that are not marked are on the screen (`Shown`), but for the status line, which each key draws, and for the row of a character between its `buffer[row][col] = c` and its mark, if a key has taken the first mark away (`Open`). Each operation marks what it changes (`Draws`), and each key ends with an update that leaves nothing behind (`Shows`) |
| `Labs_proofs!Typed`, `Decrypts` | types of the rounds; decryption returns the block | while decrypting, the halves are those that the encryption had as many rounds before, swapped: a round undoes itself whatever `f` is (`Undone`) |
| `Labs_proofs!TurnsKept` | `PeersAgree`, for the chat, the calculator, the shared memory and the pipes | `PeersInv`, one invariant for each program: what one side has heard and what is on the way make up what the other has said (`ServerInv`); each answer is one to the request before it, and the server is at most one answer ahead of what it read (`CalcInv`); the memory holds the letters up to the producer's position, and the mark only when all were read (`ShmInv`); the line is at one place of the two pipes (`PipesInv`) |
| `DlshExec_proofs!TerminalIsHeld` | `TerminalHeld`, for lines of any length | `DlshInv`: what has been started is before the shell's position in the line (`StepInv`); whether a program is still to be waited for follows from where the shell is (`UnitInv`); the programs not waited for are the terminal's owner and its queue, in the order of their start (`QueueInv`); on a whole line the files the shell holds are the pipes of the present pipeline (`Chain`, `WholeInv`), and otherwise a `cd` at the end of a pipeline closes the shell's input only when no program is left (`LoseInv`). The parser's instructions have a shape (`Parsed`) by an induction over the tokens |

None of the invariants claimed is inductive by itself: mutual exclusion does not
follow from the types without the accounting of the semaphores, `IndexInBounds`
of the monitor not without knowing who holds the mutex, `WriterAlone` not
without counting the readers, `NoneCutOff` not without what the WaitGroup counts
and who closes an open connection, `Tracked` not without who may still fork,
`DeliversRecent` not without what lies in the slots that nobody has popped,
`LinesCounted` not without the cursor that was saved, `Accounting` not without
what each queue holds, `ScreenCurrent` not without the rows that are marked
while the first process prints, `PeersAgree` not without what is on the way, and
`TerminalHeld` not without the order of the queue and the pipes that are open.
Each proof has one step per action of the program.

Only model-checked, and why:

* all liveness (`Progress`, `Terminates`, `ShutdownEnds`, `NoneLeaked`,
  `LineEnds`, the leads-to properties of bone), which this prover does not do;
* `SearchTreesKept`, `HeapsKept`, `NodesKept`, `ListsAgree`, `BigNumbersAgree`,
  `MachinesAgree` and `LineKept`: the data are trees, blocks or lists of any
  size, built and read by recursive operators, and induction over them is out of
  the prover's reach.

## 8. What was met on the way

Modelled, and described under "hazards" or in comments, without a run of their
own, because no document, comment or test of the repository says otherwise:

* bone: the new program is stopped if it reaches `tcsetpgrp` before its parent
  has; after a failed fork the next rebuild signals process -1, that is, every
  process of the user; a restart by key during a compilation makes the monitor's
  own spawn return at once.
* ringBfr: a push whose second copy fails leaves the caller's pointer in a
  filled slot, which is later freed; a queue whose array could not be allocated
  is used.
* SchedSim: `FreshArrivals` loses processes that arrive together, or comes back
  to one that is overdue, and then never ends.
* viOS: two keys within one printed character can leave a row unflushed, and so
  can `$` and `k` while the status line is printed (section 5); keys that are
  not characters insert NUL; Enter never splits a line; after the first process
  has printed, the status line is old until the next key; typing before the last
  character overwrites it; `_` on a line of blanks runs on to the next character
  of the grid, whatever its line; nothing scrolls at the end of the screen.
* dlsh: `&&` does not look at the exit status; `<` in a later program of a
  pipeline is overridden by the pipe; `cd` alone and a `>` at the end panic; and
  what section 5 says of `LineEnds`, `TerminalHeld` and `LineKept`.
* DS: a deletion in `AVLTree.c` can put the maximum of the right subtree on top
  and rebalances nothing below; `front` of `priorityQueue.c` points to a freed
  entry once it was emptied; `radixSort.c` overflows `powerTo10` for ten digits;
  `radixSortNegative.c` leaves a list with exactly two negative numbers
  unsorted; `sparseMatrix.c` reads behind the last row, and an entry in column 0
  hides the rest of its row.
* ExtremelyBigInt: `>` and `<` are true as soon as any block is greater, a
  difference below zero borrows for ever, an integer that is a multiple of 10^18
  is parsed to nothing, a product leaves blocks of zeros, a quotient is right
  only where both numbers have one block, signs are not those of the numbers,
  and `*=` and `/=` change what they are reading.
* CN: an empty line makes both sides of a chat wait; a request of the calculator
  without operands uses what was there before, and a division by 0 ends the
  server. OS: a consumer that comes too early reads a part of the letters.

## 9. Not modelled

`PROJECT.json` lists every part with its reason. In short: course exercises whose
subject is a grammar, a query, a cipher letter by letter, a class hierarchy or
an instruction set; experiments with a single system or library call; generated
automata; tutorials of LLVM and KDE; notes and data. Four parts have state and
are still left out: `charDevice.c`, whose size is never set, so that no call has
an effect; `advAutoComp` and `autocomplete`, from which the trie and the heap of
dlsh were taken, which are modelled there; the layout engine, a pure function
with tests of its own; and the libc and tables of viOS.

Of the programs modelled, the wording of output is left out; of `bone` the
checks of file names at the start; of `ringBfr` loading and unloading the
module; of `SchedSim` the format of `procs.proc`; of viOS colours, the shape of
the cursor and the race for the index and data ports of the cursor's register;
of dlsh the characters of a command line (quotes, `~`, escapes), the drawing,
the query for the cursor's position and `Trie.Delete`, which nothing calls; of
ExtremelyBigInt the signs.
