# A verification project for ps_os_2024

The repository holds the solutions of one group to the exercises of a course on
operating systems: some thirty small C programs about processes, threads,
semaphores, barriers, message queues, FIFOs and sockets. Each program is its own
system; what they share is `myqueue.h`, copied from exercise to exercise, and a
set of mistakes one can make with threads. This directory models the programs in
which several threads or processes share state, and the one sequential program
with state worth checking; it checks them with TLC, and proves the most
important properties of all of these with TLAPS: every invariant that the runs
below check is also a theorem, for all values of the constants.

Paths below are relative to the repository. Line numbers in the modules'
comments refer to the source that the module's header names.

## 1. Inventory

| component | state | operations | interaction and what is hard |
|---|---|---|---|
| producer/consumer, condition variable (`exercise06/task3`) | queue, mutex, condition variable, a sum per consumer | push, pop, wait, signal, join | C + 1 threads share the queue; wakeups may be spurious, early, late or for several waiters |
| producer/consumer, polling (`exercise06/task2`) | the same without condition variable | push, unlocked look, poll | the first look at the queue is not locked |
| linked queue (`myqueue.h`, exercises 06 and 08) | head, address of the last link, entries from malloc | push, pop, is_empty | its users have to lock; entries are freed and their addresses used again; one test for emptiness is made without the mutex |
| counter (`exercise06/task1`, with a mutex and with an atomic) | one unsigned counter | add, join, print | 1000 threads; an addition is a load and a store; the counter wraps around |
| philosophers (`exercise07/task2`) | a mutex per chopstick | take, put down | circular waiting |
| ring in shared memory (`exercise05/task3`; `task2` without semaphores) | buffer, result, two semaphores | write, read, checksum | two processes on one buffer; 64-bit arithmetic wraps |
| scheduler (`exercise05/task1`) | POSIX message queue, the current task, a flag set by SIGINT | send, receive, sort, clean up, start again | a signal between any two steps; priorities; a queue that outlives the program; the comparator reads ints where there are longs |
| FIFO server (`exercise04/task3`) | a FIFO, an open descriptor and a sum per client | make, open, poll, read, close | opens wait for each other; data and hangup in the same poll; a read takes 80 bytes and knows no lines; clients that leave, are killed or lose their input |
| dice game (`exercise10/task1`) | rolls, maximum and its count, number of players, one barrier | roll, statistics, eliminate | four waits per round on one barrier; the number of players is read while it changes |
| beehive (`exercise11/task3`; tasks 1, 2 alike) | field, linked queue, two mutexes, barrier, flags | pop a food source, harvest, report, bear, terminate | queue used under two different mutexes; flags tested by everyone for himself |
| HTTP donation server (`exercise08/task3`) | queue of connections, donations, `running`, two mutexes | accept, hand over, read, donate, shutdown, poison pills | connections are handed from main to handlers; shutdown has to reach everybody; SIGPIPE |
| TCP donation servers and client (`exercise08/task1`, `task2`) | one connection at a time, donations, `running` on both sides | accept, read, answer, SIGINT | clients wait in the backlog; descriptors are not closed; SIGINT interrupts calls; an input that has ended |
| chat server (`exercise09/task1`) | table of clients, count, `running`, mutex | accept, read, shutdown, cancel, join | pthread_cancel of threads that may hold the mutex; count and slots disagree; a thread that could not be created is counted |
| chat server of another author (`trys/exercise9_hetzenauer`, three tasks) | slots, mutex, condition variable, `sd`, `active_clients` | accept, signal, create, read, broadcast, cancel, join | the listener waits for a connection with the mutex locked and unlocks it twice; slots that malloc has not cleared; counters without mutex |
| address book and memory tracker (`exercise01/task1`) | linked list; table of allocations, totals, error bits | create, add, remove, free; malloc, free | sequences of calls: what a removal frees, what the tracker knows |
| pipelines, fork and signal exercises, calculator, file adders, plugins, thread pool stub | nothing shared | - | - |

What makes each of them correct:

* producer/consumer: no item lost or taken twice, no lost wakeup, one pill for
  each consumer, the right sum at the end, termination;
* linked queue: no entry leaks or is used after free, and threads cannot tell it
  from a queue whose calls are atomic;
* counter: no update lost, in any interleaving and with any wraparound;
* philosophers: no deadlock;
* ring: the reader reads what the writer wrote for it; the checksum is 0;
* scheduler: no task is dropped before a shutdown, however often it is interrupted;
  a shutdown discards the tasks that are left; numbers are sorted;
* FIFO server: it ends when every client has left, and not before;
* dice game: nobody is at a different barrier call than the others, the number
  of players is exact, exactly one winner;
* beehive: a flower is harvested once, reports are not lost, the bees wait for
  each other, the program ends;
* HTTP server: one owner for each connection, every accepted connection is
  answered (also at shutdown), balances that agree, handlers that all end;
* TCP server: a client that waits gets its turn; a line that was entered is
  counted once;
* chat servers: the count is exact, slots stay in bounds, mutex ownership, a
  connection for each thread, the server ends after a shutdown and has joined
  everybody;
* address book: the tracker's table is what is allocated, and the list holds no
  freed memory.

`PROJECT.json` lists all components, and under `hazards` the places in the code
where these properties are at stake.

## 2. Modules

| module | models | role |
|---|---|---|
| `WorkQueue` | what `task2.c` and `task3.c` of exercise06 have in common | state, common steps, properties, refinement mapping |
| `CondConsumers` | `exercise06/task3/task3.c` | adds signal, broadcast, wait, spurious wakeup |
| `SpinConsumers` | `exercise06/task2/task2.c` | adds the unlocked look and polling |
| `WorkDispatch` | - | the abstract specification of both |
| `MyQueue` | `myqueue.h` of exercises 06 and 08, and the calls of `task2.c` | the linked list behind the sequences of `WorkQueue` and `HttpServer` |
| `AtomicQueue` | - | the abstract specification of `MyQueue` |
| `Counter` | `exercise06/task1/task1_atomic.c` | also the abstract specification of `CounterMutex` |
| `CounterMutex` | `exercise06/task1/task1_mutex.c` | extends `Counter` |
| `Philosophers` | `exercise07/task2/task2.c` | |
| `UnsyncRing` | `exercise05/task2/task2.c` | the buffer without semaphores; abstract specification of `SemRing` |
| `SemRing` | `exercise05/task3/task3.c` | extends `UnsyncRing` |
| `Scheduler` | `exercise05/task1/scheduler.c`, `service.c` | |
| `FifoServer` | `exercise04/task3/server.c`, `client.c` | |
| `DiceGame` | `exercise10/task1/task1.c` | |
| `Beehive` | `exercise11/task3/beehive.c` (tasks 1 and 2 alike), `myqueue.h` | |
| `HttpServer` | `exercise08/task3/server.c` | |
| `DonationServer` | `exercise08/task2/server.c`, `client.c`, `task1/server.c` | server and clients composed through their sockets |
| `ChatServer` | `exercise09/task1/server.c` | |
| `CondChat` | `trys/exercise9_hetzenauer/task1` to `task3` | |
| `AddressBook` | `exercise01/task1` | list and tracker composed through malloc and free |
| `MCWorkQueue`, `MCThreads`, `MCServers`, `MCPrograms` | - | each runs several programs in one configuration |
| `WorkQueue_proofs` | - | theorems about both producer/consumer programs, and their proofs |
| `SemRing_proofs`, `DiceGame_proofs`, `ChatServer_proofs`, `Beehive_proofs` | - | theorems about one program each, and their proofs |
| `HttpServer_proofs` | - | theorems about `HttpServer` and `DonationServer`, and their proofs |
| `Mutexes_proofs` | - | theorems about `CounterMutex`, `Philosophers` and `MyQueue`, and their proofs |
| `Programs_proofs` | - | theorems about `Scheduler`, `FifoServer`, `AddressBook` and `CondChat`, and their proofs |

The `MC` modules do not compose programs that interact. A variable `program`
is chosen in the initial state; only the program it names takes steps, the
others stay in their initial states. The reachable states are therefore the disjoint
union of those of the single programs, a property of one program is
checked in all of its states, and the fairness of each program is stated for
the behaviours in which it runs. Programs that are run together have names of their
own (`CondSpec` and `SpinSpec`, `DiceSpec`, `TcpNext`, `ListInit`, `BookInit`).

How state and actions correspond to the code:

* A thread is a program counter (`pc[t]`; `mpc`, `main` or `parent` for main, `lpc` for
  the listener, `scheduler` and `server` where there is one process of the kind) whose values are named after what the thread does next. One action
  is the code between two points at which another thread can notice or
  influence it: a lock, an unlock, an access to shared state, a blocking call.
  Locals that survive such a point are variables (`temp`, `socket`, `loaded`,
  `counted`).
* A mutex is a variable with its owner. `pthread_cond_wait` releases it and
  waits in one step; a waiter that is woken competes for the mutex again. A
  signal wakes at least one waiter if there is one, as POSIX allows, and a
  waiter may wake up by itself at any time. In `CondChat` a thread unlocks a
  mutex that is not its own; the mutex is free after that, as with the default
  kind of glibc.
* An increment of a plain shared variable is a load and a store (`CounterMutex`,
  `active_clients` in `CondChat`).
* A barrier is not a variable: it opens when every thread is at one of its
  calls, *whichever* call that is, because the code uses one barrier for all of
  them; one thread is told that it is the serial one. That all are at the same
  call is a property (`SameBarrier`, `WaitForEachOther`), not an assumption.
* A cancellation is pending until the thread is at a call that is a
  cancellation point. `accept`, `read`, `sleep` and `close` must be such points
  and `printf` may be one; the models let a thread in `printf` either go on or
  end. The cleanup handler of `CondChat` runs where the code has pushed it.
* A signal handler (`Scheduler`, `DonationServer`, `ChatServer`) is a step that may
  come between any two others. A blocking call that it interrupts either
  returns with an error or goes on, as the code lets it.
* The queue is a sequence in `WorkQueue` and `HttpServer`, whose threads change it with a
  mutex locked. `MyQueue` justifies that: there it is the linked list of
  `<sys/queue.h>` with its two pointers, one assignment a step, and it implements
  `AtomicQueue`, whose state is the sequence. A push takes effect when the entry is
  linked, a pop when the head has moved. `Beehive` has pointers, too, because its
  pops and pushes are not protected by the same mutex, and there the list does fail.
* Data is abstracted to what the properties see: an item is its number (from
  which 1, -1 or INT_MAX follows), the sum of a consumer the set of items it
  has added, a donation the client that made it, an HTTP request the branch of
  `handle_client` that it takes, a chat message whether it is a shutdown, a byte
  in a FIFO whether it is a newline, a task its priority and its numbers.
* Integers have their width where it matters: `unsigned` in `Counter`
  (`Modulus`), 64 bits in `SemRing` (`W`), the int of the comparator in
  `Scheduler` (`HalfRange`), `running` in `HttpServer`.
* A failing `pthread_create` makes main return or exit, which ends all
  threads: the models have a state of main in which no thread steps. SIGPIPE
  ends the program in the same way (`HttpServer`, `CondChat`). Two calls are
  different. In the listener of `ChatServer` the result is ignored (`server.c:106`):
  the client is counted, and its slot names no thread (`InsertFails`). What main's
  `pthread_cancel` and `pthread_join` of such a slot do is undefined; the model
  lets them crash, which a `pthread_t` that is still 0 always does, or do
  nothing, and a dangling one may come to name a later thread (`Stale`, `Named`).
* What malloc returns is not cleared. In `CondChat` (`task3/server.c:168`) each slot
  begins as 0 or as the number of no open descriptor (`Junk`), which main takes for a
  connection and a thread fails to read from.
* The end of a user's input is not the end of a client: `fgets` fails every time and
  leaves the line before in `msg`, which is sent again and again (`SendAgain` in
  `DonationServer`, `WriteAgain` in `FifoServer`).
* A definition whose comment begins with "Mutant of" is no part of any
  specification: it is the definition it names with a plausible mistake in it,
  kept beside it to show that the property that guards against the mistake
  does fail.

## 3. Runs

Runs that are expected to pass:

| run | instance | distinct states | what it shows |
|---|---|---|---|
| `workqueue` | C = 3, N = 3, both programs | 114,000 | exclusion, exactly-once, a pill for each, no lost wakeup, refinement of `WorkDispatch` with its liveness and its final sum |
| `threads` | ring N = 5, K = 7, L = 3, W = 16 | 85,000 | no race, no stale read, termination, refinement of `UnsyncRing` |
| | counter: 3 threads of 3 additions, modulo 64 | | no update lost, refinement of `Counter` |
| | 4 philosophers, 2 meals | | no deadlock |
| | dice: 3 players, faces 1..3 | | barriers never mixed up, exact number of players, one winner, rounds end |
| | chat: 3 clients, 1 admin, 2 slots | | exact count, slots in bounds and, but for failed creations, distinct; mutex ownership, a shutdown is carried out |
| | linked queue: 2 threads, 2 values, 2 addresses | | memory is sound, refinement of `AtomicQueue` |
| `servers` | HTTP: 2 handlers, 2 connections | 218,000 | one holder, balances agree, every connection is served, shutdown drains |
| | TCP: 3 clients, 2 descriptors, one line each | | a client that waits gets its turn, unless one whose input has ended is served for ever; each line is counted once, but for the last one before CTRL+C or the end of the input |
| `programs` | 3 bees, 2 x 2 field | 755,000 | harvested once, rounds in step, the summary is final, a bear ends the program |
| | 4 tasks, 2 messages, ints of -8..7 | | no step but a cleanup may drop a task, small numbers are sorted |
| | 2 FIFO clients, buffers of 3 bytes, 4 unread bytes | | the server counts only clients that have left, but for one each time a read has torn off a newline |
| | address book: a table of 8, 10 blocks, 24 units | | the tracker is exact, the list holds no freed memory |
| | `CondChat`: 2 clients, 2 slots | | a connection for each thread that has read a name, main joins only what it created |

Runs that are expected to find a violation. Each checks a sentence of the
exercise sheet against the code, and each counterexample is a behaviour of the
program:

| run | sentence | what happens |
|---|---|---|
| `http_twice` | "When a POST /shutdown request is received, the listener thread is terminated" (`exercise08/README.md:125`) | two shutdowns: `running` goes from 1 to -1, which is true (`server.c:93`, `209`) |
| `donation_ctrl_c` | "when `/quit` is entered or `CTRL+C` is pressed: clean up and exit" (`exercise08/README.md:90`) | `fgets` is interrupted, and the client sends the line of the previous iteration again; the server adds that donation twice (`client.c:65-78`) |
| `dice_maxima` | "The player(s) with the highest score are then eliminated" (`exercise10/README.md:10`) | a player reads `n` after another has decremented it and finds it equal to `current_max_count` (`task1.c:64-66`) |
| `beehive_terminates` | "The program terminates once nectar from all flowers has been collected" (`exercise11/README.md:86`) | `must_terminate` is stored between the tests of two bees of the same round; one leaves, the other waits at the barrier (`beehive.c:133`, `161`, `242`) |
| `beehive_reports` | "All discovered harvestable flowers are added to the queue" (`exercise11/README.md:82`) | a pop of the last entry and a push interleave; the entry is lost (`beehive.c:142`, `156`) |
| `chat_exit` | "waits until the listener thread and all client threads have terminated" (`exercise09/README.md:25`) | `client_count` shrinks while main counts up to it (`server.c:59`, `181`) |
| `chat_ends` | "waits for all remaining clients to disconnect, cleans up and exits" (`exercise09/README.md:38`) | a thread is cancelled inside `printf` with `clients_mutex` locked (`server.c:108`, `47`, `175`, `183`) |
| `chat_waits` | the sentence of `chat_exit`, for the server in `trys/` | once every slot has been used, `sd` is still 0 and main joins nobody (`task3/server.c:218`, `240`) |

### What the models show besides

These differences between the code and its exercise sheets have no run of their own. The
models contain the behaviour, and the properties named are stated so as to allow it.

* `scheduler.c:136` calls `mq_unlink` with the name of the program: the queue stays, with the
  tasks in it, and a scheduler that is started again works on them. `exercise05/README.md:27`
  says "Upon shutdown, the server discards all outstanding jobs", and line 68 "Ensure the
  message queue is properly cleaned up on shutdown". `OnlyCleanupDiscards` is about the time
  before a shutdown and would allow what the sheet asks for.
* `exercise08/task2/client.c:67` does not test `fgets`. When its input ends (CTRL+D, or a
  pipe), the client sends its last line for ever, the server adds it for ever, and the clients
  in the backlog wait for ever: the first disjunct of `NobodyWaitsForEver`, and `eof` in
  `CountsLines` and `CountedOnce`.
* `exercise04/task3/server.c:50` reads 80 bytes at most, and takes a first byte that is a newline
  for the end of a client. If 27 lines of three bytes are unread, the first read takes 26 of them and the
  two digits of the next, and the second read begins with its newline: a client that is connected
  is counted as gone, and the server may end while clients are connected. The history variable `torn` counts
  these reads, and `CountsLeavers` allows one for each.
* In the other direction, an empty line that is read behind another line is not noticed, and a
  client that is killed is never counted: the server then waits for ever.
* `exercise09/task1/server.c:106` ignores that a thread could not be created: `CountIsExact` counts the
  client, `SlotsAreThreads` allows one slot without a thread for each. main then calls `pthread_cancel` and
  `pthread_join` with what is no thread (`JoinNobody`).
* `trys/exercise9_hetzenauer/task3/server.c:220` tests slots that were never set: a slot that is not 0
  gets a thread before it has a connection. `OwnConnection` demands one only from a
  thread that has read the name.
* A message longer than 79 bytes is written by the client of `exercise04/task3` in parts; a part that
  is a newline alone ends the client like an empty line.

### Bounds, and why they are enough

* `WorkQueue`: with three consumers one can sleep, one can be about to sleep and
  one can steal the item a signal was for; three items and three pills make
  every sleeper's item arrive before, with and after that of the others. `C <= N`
  is an assumption because `tid` has room for N threads only (`task3.c:34`).
* `SemRing`: seven iterations go round three elements twice; 16 = W lets products
  and sums wrap. The theorems hold for all values.
* `MyQueue`: two threads are enough for one to come between two assignments of the other;
  two addresses (`Room`) allow a list that is empty, has one entry or more, and
  malloc hands them out again in either order; two values tell entries apart. The
  theorems hold for all values.
* `CounterMutex`: three threads of three additions; one can be between its load
  and its store while the others overtake it by more than one addition. The sum
  of two even and one odd addition passes 64 and falls below 0. The theorems hold for
  all values.
* `Philosophers`: four, so that there are philosophers who are neither last nor
  neighbours of the last; two meals. The theorems hold for all values.
* `DiceGame`: three players are the fewest for a round in which two of three lose;
  three faces give all orders of three rolls.
* `ChatServer`: three clients for two slots make one be refused and one take the slot
  of another; the counterexamples need two.
* `HttpServer`: two handlers are the fewest that can race for an entry and that one
  broadcast must reach both of; two connections make a queue, two donations and
  two shutdown requests. The kind of request is chosen when it is read, so
  every pair of kinds occurs. `http_twice` has a third connection, because
  main has to come back to its test to show that it fails.
* `DonationServer`: three clients, so that one waits behind another one that
  waits; two descriptors (`MAX_FDS`), so that they run out, as the server
  never closes one. `MaxLines` bounds what a user enters: with one line there is what is
  sent again before the first line (the 0 that the buffer begins with) and after the last;
  `donation_ctrl_c` has two. `MaxCounted` ends the repetition of a client whose input
  has ended; with 2 a line is added more often than it was entered, and in the states at the
  bound the server stays in its read, as it would without the bound. The theorem
  holds for all values.
* `Beehive`: three bees allow a bear watcher, one at work and one late; in a
  field of 2 x 2 a flower is reported by two neighbours. The counterexamples need
  only two bees and three flowers in a row. The number of entries is bounded by
  `MaxEntries` = 1 + 4 per flower, which the code cannot exceed (each of at
  most four neighbours reports a flower once).
* `Scheduler`: four tasks for a queue of two, so that a sender waits; the
  tasks have equal and different priorities, one has no numbers, and one has numbers
  whose differences do not fit into an int. The scheduler may be stopped and
  started again any number of times.
* `FifoServer`: two clients, one of which leaves while the other one writes, is
  killed or leaves in the same poll. Buffers of 3 bytes (`PIPE_BUF`, 80 in the code)
  hold a line of two bytes and a part of the next one or the whole next line, and split a longer one;
  4 unread bytes (`MaxBytes`) are more than one read takes, so that newlines are torn off. The
  theorem holds for all values.
* `AddressBook`: a table of 8 fills up before 10 blocks are used, so that there are
  blocks the tracker does not know; `MaxAllocated` ends the run after several
  books.
* `CondChat`: two clients and two slots: main leaves its loop with and without a
  shutdown, two shutdowns meet, and each slot begins with 0 or with something else.

Deadlock checking is off in all configurations: every program ends, in a state
without a next step. That the programs get there is what the liveness
properties say; `NoDeadlock` is a property of the philosophers alone.

### Fairness

The operating system schedules every thread: weak fairness for each thread's
steps and for main. A mutex that is free again and again is given to each
waiter some time: strong fairness for the lock steps, where a thread could
otherwise be overtaken for ever (`CondConsumers`, `SpinConsumers`,
`HttpServer`, `ChatServer`); between two barriers each bee takes each mutex
once, so that weak fairness is enough in `Beehive`. There is no fairness for
spurious wakeups, for failures of calls, for a bear, for SIGINT, for the arrival
of connections or for what a chat client says. Clients of the HTTP server send a
request or close (otherwise `read` would not return, and a silent client does
keep a handler for ever), clients of the chat server send their username, and a user
who is connected to the TCP server goes on until he leaves or his input ends (the server
reads from one client until that one closes). That an input ends is not fair, and a client
whose input has ended goes on sending. `POSIX` promises no fairness of
mutexes; without the assumption nothing can be said about termination of any
program that uses one in a loop.

`FifoServer`, `Scheduler`, `AddressBook`, `CondChat`, `Philosophers`, `MyQueue` and
`CounterMutex` are checked for safety only, and state no fairness.

## 4. Theorems

`SemRing_proofs`, for all N, K, L and W (`SemRingAssumption`: N a natural number,
the others positive):

* `TypeCorrect`: `Spec => []TypeOK`; no semaphore counts more than L;
* `RaceFree`: `Spec => []NoDataRace`;
* `ReadsWhatWasWritten`: `Spec => []ReadsOwnProduct`;
* `ChecksumIsZero`: `Spec => []CorrectChecksum`;
* `Implements`: `Spec => ImplementsTask2`.

None of the properties is inductive. The invariant `IInv` adds `Counters` (each
semaphore is the difference of what was posted and what was taken; this is what
relates A's and B's loop counters), `Progress` (where the processes can be),
`Unread` (what B has still to read is what A wrote last) and `Summed` (`result`
is the sum of the first `summed` products). From `Counters` follows that A is at
most L elements ahead, and A's and B's elements differ because two numbers less
than L apart have different remainders modulo L (`RemaindersDiffer`). For the
checksum the recursive function `Expected` must be known to satisfy its own
defining equation; that is proved from a least counterexample
(`LeastElement`, which comes from the well-foundedness of < on Nat), because the
library's theorems on recursive functions take operators as parameters.

`WorkQueue_proofs`, for all C and N (`WorkQueueAssumption`: both positive, C <= N),
for the program with the condition variable (`CondSpec`) and for the one that
polls (`SpinSpec`):

* `CondTypeCorrect`, `SpinTypeCorrect`: `[]TypeOK`;
* `CondExclusion`, `SpinExclusion`: `[]MutualExclusion`;
* `CondNothingLostOrDoubled`, `SpinNothingLostOrDoubled`: `[]ExactlyOnce`;
* `CondPillPerConsumer`, `SpinPillPerConsumer`: `[]PillPerConsumer`;
* `CondWakeups`, `SpinWakeups`: `[]NoLostWakeup`;
* `CondImplements`, `SpinImplements`: `WD!Init /\ [][WD!Next]_(WD!vars)`, the
  safety part of the refinement of `WorkDispatch`.

All rest on one invariant `IInv`. It adds that the queue holds
consecutive numbers up to `pushed` (`InOrder`), that exactly the items below
these are with a consumer, each with one (`Taken`), where main's counters are at
each of its program points (`MainInv`), and that a consumer has an item in `temp`
only between its pop and its addition, and a pill when it has ended (`TempInv`).
The steps that the programs share are lemmas there, and two lemmas leave room for
what they do not share: `PushStep` allows a push to wake any set of waiters, which
is empty for the program that polls, and `GoOn` is about any step of a consumer that
leaves queue and items alone and changes the mutex only to lock or unlock it. A wakeup
changes only `pc` among "wait" and "wake", which the invariant does not distinguish.

* `PillPerConsumer` compares two cardinalities; the proof is a one-to-one
  correspondence between the pills that have been taken and the consumers that
  have one, which `Taken` gives.
* `NoLostWakeup` is not a consequence of `IInv` and is shown to be inductive
  together with it: a push adds one item and wakes at least one sleeper if there
  is one, a pop takes one item and one awake consumer, a consumer that goes to
  sleep has found the queue empty with the mutex locked. For the polling
  program it says nothing, as nobody waits (`NobodyWaits`).
* The refinement needs one more invariant, `JoinInv`: main has joined only
  threads that have ended, and its sum is that of their elements. At the end these are
  all elements, and 1 and -1 in turn sum up to N % 2 (`SumOfAll`).
  Liveness, the rest of `ImplementsWorkDispatch`, stays with TLC.

`Mutexes_proofs` on `Philosophers`, for two or more philosophers and any number of iterations
(`DiningAssumption`):

* `DiningTypeCorrect`: `DiningSpec => []DiningTypeOK`;
* `DeadlockFree`: `DiningSpec => []NoDeadlock`.

The invariant adds `Holding` (a chopstick belongs to a philosopher exactly if it is
one of those that his place in `dine` says he `Has`) and `Seated` (who is there,
and that nobody at the table has had all his meals). `NoDeadlock` then follows from the
order of the chopsticks: everyone takes the one with the lower number first
(`LowerFirst`), which for the last philosopher is what `task2.c:19` arranges. Take the
blocked philosophers: each waits for a chopstick whose owner holds it as his
first one and waits for a higher one, and there is a highest one.
Again well-foundedness of < gives the extreme element.

`Mutexes_proofs` on `CounterMutex`, for any set of threads, any number of iterations and any
modulus (`CounterAssumption`):

* `CounterTypeCorrect`: `MutexSpec => []MutexTypeOK`;
* `Implements`: `MutexSpec => ImplementsAtomic`, the program with the mutex
  implements the one with the atomic counter.

The invariant `Holds` says that `owner` is the set of the threads between
lock and unlock, that there is at most one, and that what it has loaded is
still the counter when it stores. With that a store is a `FetchAdd` and every
other step of a thread a stutter (`CounterStep`).

* `AtomicTotal`: `CountSpec => []FinalCount`;
* `MutexTotal`: `MutexSpec => []FinalCount`.

The first is proved for the atomic counter, where an addition is one step: `counter`
is what the additions made so far amount to (`SumInv`). These are pairs of a thread and
a value of its loop variable, and counted separately for even and for odd values
(`Made`), so that no sum over threads is needed; at the end they are the product of
the set of threads and of half of the values (`HalfOfThem`). A remainder that is taken
after every addition is the one that is taken at the end (`RemainderOfSum`). The second
theorem follows from the first and from `Implements`.

`Mutexes_proofs` on `MyQueue`, for any set of threads, any values and any number of
addresses (`MyQueueAssumption`):

* `ListTypeCorrect`: `ListSpec => []ListTypeOK`;
* `ListMemory`: `ListSpec => []MemoryIsSound`;
* `ListImplementsQueue`: `ListSpec => ImplementsAtomicQueue`.

`MemoryIsSound` and the refinement mapping speak of `Order`, *the* sequence of entries
from `stqh_first` to the `next` that is NULL, a CHOOSE; the invariant `ListInv` says
instead that *some* sequence of different entries is linked in this way. The two are the same
because the pointers determine the sequence (`ListsAgree`: there is no least place where
two such sequences differ). `Exclusive` says that only one thread is between lock and
unlock, and `Stages` what holds at each point of its call: when `stqh_last` is behind, which
entry is allocated and not linked, and which value is in hand. From there every
step is one of three (`Step`): a push appends to the sequence (`LinkAppends`), a
pop removes its head (`FirstBecomesTail`), and everything else leaves it alone
(`QuietKeeps`). The look without the mutex may come between any two of them; it reads one
pointer, which is NULL exactly when the abstract queue is empty at that moment, so
that what `task2.c:86` sees is true when it is seen.

`DiceGame_proofs`, for every finite set of players and every die
(`DiceGameAssumption`):

* `TypeCorrect`: `DiceSpec => []DiceTypeOK`;
* `PlayersCounted`: `DiceSpec => []CountsPlayers`;
* `BarrierShared`: `DiceSpec => []SameBarrier`;
* `LastOneWins`: `DiceSpec => []OneWinner`.

The invariant says in which part of the loop the threads are between two
openings of the barrier (`InStep`: `Rolling`, `Counting`, `Eliminating` or before
the last wait), and that losers take no part (`Losers`). What keeps n from
falling to 0 is `Judged`: once the statistics are there, either everybody who is
in has rolled the maximum, n is their number and nobody decrements it, or somebody
who is in has rolled less and stays. It holds although n is read while others
decrement it, and it is why the violation of `dice_maxima` costs the game a rule but
not its winner. That there is a maximum comes from a smallest set of players
without one (`SomebodyRolledMost`).

`ChatServer_proofs`, for every finite set of clients and every number of slots
(`ChatServerAssumption`):

* `TypeCorrect`: `ChatSpec => []ChatTypeOK`;
* `MutexOwned`: `ChatSpec => []MutexOwner`;
* `ExactCount`: `ChatSpec => []CountIsExact`;
* `NoOverflow`: `ChatSpec => []SlotInBounds`;
* `SlotsHoldThreads`: `ChatSpec => []SlotsAreThreads`.

The invariant adds that a client waits in one place until it has a thread
or is counted without one (`Accepting`), that the room the listener has found is still there
when it comes back for the mutex, because nobody else makes `client_count` greater (`Room`), and
that a thread that a slot names has been created (`Created`); main's index stays below
the number of slots (`Joining`). `SlotsAreThreads` compares cardinalities: an insertion
adds a thread to the slots or a client to those without one, also where a dangling
`pthread_t` comes to name the new thread, and a client that is counted out takes at most
the thread of the last slot away.

`HttpServer_proofs`, for any number of handlers and every set of connections
(`HttpServerAssumption`):

* `TypeCorrect`: `Spec => []TypeOK`;
* `NoConnectionLost`: `Spec => []OneHolder`;
* `BalancesConsistent`: `Spec => []BalancesAgree`.

`OneHolder` counts the places of a connection. The invariant says it without
counting: `Sockets` (at which program points main and a handler have a connection, and
when a handler has met its pill) and `Places` (a connection is accepted exactly if it is
with main, in the queue or with a handler, and then in only one entry, with only one
handler, and in only one of these places). It must hold of handlers that have not locked
anything as well as in critical sections. `Balances` says that every balance that was
read is a subset of `donations`, which only grows, that it holds the donation of its own
connection, and that any two of them are comparable: a new balance is
`donations` itself, which includes all the others.

`HttpServer_proofs` on `DonationServer`, for every set of clients and every number of
descriptors and lines (`DonationAssumption`):

* `LinesCounted`: `TcpSpec => []CountsLines`.

`CountsLines` is what holds in place of `CountedOnce`, which CTRL+C violates and which says
nothing of a client whose input has ended. What server
and client know of each other is in what has been sent: `Conversation` says for each
state of a client what is on the way and how far the server's count is behind, with
the cases of a client that was interrupted in `fgets` and in the read of a reply, and of one
whose input has ended, for which the count has a lower bound only.
`Turns` says that a client is in the backlog once, and that the one that is being served is
not in it: otherwise its lines could be added before its turn.

`Beehive_proofs`, for every set of bees and every field (`BeehiveAssumption`):

* `TypeCorrect`: `Spec => []TypeOK`; the entries of the queue are never more than
  `MaxEntries`, which is therefore no restriction of the model;
* `NoFlowerTwice`: `Spec => []HarvestedOnce`;
* `RoundsTogether`: `Spec => []WaitForEachOther`;
* `FinishedSimulation`: `Spec => []SummaryIsFinal`.

Although the queue is used under two mutexes and loses entries, all of this holds, and
the invariant says nothing about the links of the queue but their types. It says who
owns `field_mutex` (`FieldOwner`), that a bee that pops or pushes has an entry in hand
(`InHand`), that what has been allocated and what is still to be reported is at
most four for each collected flower (`Room`, with `ReportsInField` for the
four), in which of two phases of a round all bees are (`Phases`), and what main
knows at each of its points (`MainInv`). A harvest takes the nectar of a flower that had
some (`HarvestStep`), so that the number of collected flowers cannot exceed that of
flowers (`CollectedBound`).

`Programs_proofs` on `Scheduler`, for every finite set of tasks and every size of the
queue and of an int (`SchedulerAssumption`):

* `TasksKept`: `SchedSpec => OnlyCleanupDiscards`;
* `SmallNumbersSorted`: `SchedSpec => []SortsSmallNumbers`.

`OnlyCleanupDiscards` counts the tasks held; the invariant says that they stay as many as there
are (`AllHeld`), which the code does even in its cleanup. For its steps to count right, it must also say that a
task is in one place only (`InPlace`), as the set of done tasks would not grow
otherwise. What `mq_receive` takes exists, since among any messages there is an
oldest one of the highest priority (`LeaderExists`, from a least prefix without one).
`SortsSmallNumbers` has two sides. For numbers whose differences are ints the
comparator compares (`ComparesSmall`), so that a result in its order ascends. And there
is a result in its order (`AscendingExists`, by insertion into a least prefix
without one): without that, what the model lets qsort do would be anything.

`Programs_proofs` on `FifoServer`, for every number of clients and every size of the
buffers (`FifoAssumption`):

* `LeaversCounted`: `FifoSpec => []CountsLeavers`.

`closed` is a plain counter, and a client may be seen by POLLIN, by POLLHUP and twice. The
invariant bounds it by the number of the clients that have left and whose FIFO is empty
(`ReadAndLeft`) and the newlines that have been torn off and read, which are those torn off so far
without those that are still in front of a FIFO (`CountsRead`, `TornFifos`). A visit that counts takes
one of the two kinds of newline out: what a client writes begins with a newline only when it
leaves (`PartsBegin`, `SaysSomething`), and only the end of a read can put another one in front.
It is a bound and no equation, because an empty line behind another one is read with it and
never counted. `Reported` is needed for a visit to find what poll has announced.

`Programs_proofs` on `AddressBook`, for every size of the table and of the heap
(`AddressBookAssumption`):

* `TrackerExact`: `BookSpec => []TrackerIsExact`.

malloc and free are functions of the tracker's and the heap's state, and each of them
keeps `MemoryOK` (`MallocKeeps`, `FreeKeeps`): a block is in one slot of the table at
most, a tracked block is allocated, the totals differ by the sizes in the table (also
after an error), and without an error all blocks are tracked. The sum over the table is
a recursive function; its equation and what one slot contributes (`SizesEquation`,
`SlotChanges`) are proved from least counterexamples. `ListOK` says that all nodes and
contacts of the list are different blocks, so that freeing one leaves the others.

`Programs_proofs` on `CondChat`, for every set of clients and every number of slots
(`CondChatAssumption`):

* `ConnectionsOwned`: `CondChatSpec => []OwnConnection`;
* `OnlyCreatedJoined`: `CondChatSpec => []JoinsCreated`.

The mutex excludes nobody here, as the listener unlocks it twice, so the invariant
does not mention it. What protects the slots is that the listener fills each of them
once, in their order (`Filling`), a connection being in one slot at most
(`Connected`), and that main creates a thread only for a slot that is not 0, in
the same order (`Creating`): one that is filled, or one that malloc left like that, whose thread
cannot read a name before the listener has filled it. `sd` is a flag and a number: whoever writes 1 to it is a
thread, so that slot 0 has one (`ShutByThread`), and main replaces it
by the number of the threads it has created; hence main joins slots that have threads
(`Joining`), whatever /shutdown writes in between.

The runs check several programs at once, with `MCSpec`; the theorems are about the
specification of the single program.

Only model-checked:

* all liveness properties (`Finishes`, `Served`, `Drains`, `RoundsEnd`,
  `DestroyedEnds`, `AdminStops`, `NobodyWaitsForEver`, the liveness in
  `ImplementsWorkDispatch`), which are out of the reach of the prover together
  with their fairness.

The type invariants that the modules state are proved for all values of the constants; of
these the runs check that of `HttpServer` only.

## 5. Not modelled

* Errors of calls that end a program before it has a second thread or process,
  and freed memory (a program that frees data and exits at once is modelled as
  exiting; a store into a freed queue entry of the beehive is lost).
* The contents of messages, responses and output; the amounts of donations to the
  TCP server; the parsing of numbers and HTTP requests.
* Descriptors that are closed and used again. In `CondChat` what malloc leaves in a slot is 0 or no
  open descriptor; that it is one by chance is left out.
* A client of `exercise04/task3` whose input ends before its first line: it writes
  what is in a buffer that was never set.
* c > n in exercise06, where `tid` overflows: everything after it is undefined.
* The parent of `exercise05/task2`: `UnsyncRing` has only the children's steps,
  as the specification that `SemRing` implements; alone the program promises
  nothing, because its two children race.
* The chat clients: their reader threads print what arrives, until the
  program exits. What they send is in the server's models.
* `find`, `filter` and `sort` of the address book, which are stubs, its output, and
  `calloc` and the summaries of the tracker, which the book does not use.
* An unfinished variant of the chat server in `trys/`; the thread pool, which is
  an `#error "TODO"`; pipelines and redirection (the behaviour is that of
  `cat`, `grep`, `cut` and the kernel); fork and signal exercises, whose
  children are independent; calculator and file adders, which compute
  sequentially or share nothing; shared libraries and plugins, which have no
  state.

Components with status `partly` or `not_modelled` in `PROJECT.json` have their reason
there.

## 6. What is left

The programs that share state are modelled. What would be worth doing next:

1. A chat client with its two threads, composed with `ChatServer`.
2. `WorkQueue` and `HttpServer` composed with `MyQueue` in one module. Exclusion is proved of
   the programs, and that the list is a queue under exclusion is proved of `MyQueue`; that the
   two fit together is an argument in this text.
3. The linked queue of `Beehive` under one mutex instead of two, to show that this repairs
   what `beehive_reports` finds.
