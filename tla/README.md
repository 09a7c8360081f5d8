# TLA+ specifications of hp-systems-course

The repository is a course on high-performance systems: about sixty small C and Go programs,
each of which shows one mechanism of a machine, an operating system or a network. Many of
them are concurrent, and their correctness rests on arguments that no test run shows: which
signal wakes whom, what a memory order is good for, what an interrupted run leaves behind,
which answer belongs to which request. This directory states those arguments as TLA+
modules, checks them with TLC on small instances, and proves the most important of them with
TLAPS for every number of threads, tasks, messages, requests and runs.

## 1. Inventory

State, operations and interaction of every part with state of its own; section 6 lists the rest.

| part | source | state | operations | hard behaviour | what makes it correct |
|---|---|---|---|---|---|
| thread pool | `lecture-04/thread_pool/thread_pool.c` | ring buffer, `count`, `stop`, mutex, condition variable, task arguments | init, add_task, worker loop, destroy | lost and spurious wakeups, full ring, shutdown with queued tasks | no lost wakeup; a task runs once; destroy drains and touches nothing in use |
| locked counters | `lecture-02/cpu-atomic/*spinlock.c` | `shared_counter`, loop counters | lock, `++` (load, store), unlock, create, join, report | every interleaving; a torn `++`; starvation | exclusion, exact count, FIFO order |
| Peterson's mutex | `lecture-02/cpu-atomic/peterson.c` | flags, turn, the same counter, store buffers | the same; plain stores wait | a plain counter under atomic flags; starvation | exclusion, exact count, no starvation; behaves as on sequentially consistent memory |
| the spinlocks with memory orders | `lecture-06/memory_orders/*spinlock.c` | what each thread has seen of counter and lock | relaxed, acquire and release accesses | stale reads | no data race; behaviours of the seq_cst lock |
| reordering experiments | `out_of_order.c`, `processor_reordering.c` (two of them) | `x, y, r1, r2`, store buffers | reset, create, join, check | load overtakes store | a report is genuine; none with seq_cst |
| torn values | `lecture-02/cpu-atomic/cpu_atomic.c`, `cpu_non_atomic.c` | a 64-bit value in one or two cache lines, store buffers | store and load it in halves, judge | halves of different stores | a value called torn is torn, or the initial 0 |
| mutexes, semaphore, flags | `lecture-02/sync/{mutex,semaphore}.c`, `lecture-08/threads/{pthreads,c11}.c`, `deadlock.c`, `livelock.c` | owners, a semaphore, flags, a counter | create, join, lock, unlock, post, wait, raise, look, lower | opposite locking orders, flags that go up together | exact count; nothing consumed early; only a circle of owners blocks |
| mutexes between processes | `lecture-03/sync_shmem/mutex_shared.c`, `mutex_death.c` | counter, owner, EOWNERDEAD | fork, lock, `++`, unlock, make consistent, wait | a process killed while it holds the mutex | exact count; a dead owner is noticed, or is the only one who blocks |
| shared memory with flags | `lecture-03/ipc/shmem.c`, `shmem_anon.c` | two flags, a text, store buffers | wait for a flag, copy, set and clear flags | no lock, no fence | whole messages in turn; both end |
| byte streams between processes | `pipes.c`, `mkfifo.c`, `sockets.c`, `unix_sockets.c` | bytes on their way, open ends | open, read, write, close, wait | split reads, a partner that dies, ends left open, `open` that waits | messages whole and in turn; nobody waits for ever |
| named kernel objects | `queue.c`, `semaphore.c`, `priority_queue.c` | names, queues, semaphores, which outlive a run | open or create, send, receive, post, wait, unlink | interrupted runs, old messages, `sleep` as synchronisation | a clean run is right; leftovers are bounded; every run ends |
| process creation | `lecture-03/fork/{fork,vfork,vfork_ok,spawn}.c` | stdio buffers, the memory a vfork child borrows | print, create, exec, exit, wait | buffers that are copied or shared, a stack returned from twice | each line once, with the exceptions that are stated |
| coroutines | `lecture-04/coprograms/tokenizer.c`, `coro.c` | saved contexts, a one-word buffer | switch_context | control flow that is not a call, buffer limits | each word once, whole, in order; turns; no return without a stack |
| ping | `lecture-07/internet/ping.c`, `ping.go` | pid, `seq`, deadline, packets in the raw socket | send, wait, accept or skip an answer, time out, sleep | lost, doubled, late and foreign packets, time, fields of 16 bits | every printed line is true; the second is kept; the loop goes on, but for a panic of ping.go |
| Internet checksum | `ping.c` | a packet | checksum | carries, odd length | accepted by a receiver, damage found |
| transports | `lecture-07/transport/{tcp,echo,udp}.go` | stream or datagrams, who listens | listen, dial, write, read a line | partial reads, full window or socket, start-up order, errors reported late | order; no loss over TCP; an account of losses over UDP |
| HTTP server | `lecture-07/application/tcp.go` | a connection, the request read so far | request line, headers, body, answer, close | bodies longer or shorter than announced, bad lines, a close with unread bytes | the answer a request deserves, or a loss the client has caused |

The programs are separate executables. Within one, parts interact as in the code: threads by
shared variables, processes by memory, streams, queues and semaphores of the kernel, the
pool and its client by calls, ping and its host by packets.

## 2. Modules

A module models one program or one thing that programs share: its state as VARIABLES, one
action for each step that others can see, named after the function or the call. What a
thread does between two accesses to shared state is one step; `++` on a shared plain int is
two. `PROJECT.json` ("map") names the source lines of every definition. Printing, error
messages that end in `exit` and memory addresses are left out, except where what is printed
is the point (`Ping`, `Forks`, `Coroutines`).

**Client of all locks.** `LockClient` is `main` and `thread_func` of the counter programs;
a lock extends or instantiates it with the steps from `lock` to `load` and with the unlock
that ends an iteration. `AtomicCounter` (what the program promises) and `FifoLock` (what a
fair lock promises) are the abstract specifications.

**Pool.** `TaskPool` is the abstract specification, a FIFO of bounded capacity whose tasks
run once, and `ThreadPool` the program, line by line. Reading the slot and moving `front`
are two steps (`WTake`, `WPop`), and so are writing the slot and moving `rear`, so that the
mutex has something to protect.

**Memory.** `TSO` is the store buffer machine of x86, where the programs are compiled and
their comments place them. A plain store waits in the buffer of its processor and an atomic
one is an exchange, which waits for the buffer to be empty. `ShmHandshake`, `StoreBuffering`,
`PetersonTSO` and `TornValue` extend it. Compilers are assumed to keep the order of the plain
accesses, as the volatile flags and the experiment's functions make gcc do. `PetersonTSO` has
the flags and `turn` atomic and `shared_counter` plain, as the code has; its mutant is the
`volatile` program that the comment in `peterson.c` (lines 4 to 6) speaks of. In `TornValue`
the constant `Parts` says how many cache lines the value lies in. `WeakCounter` is the memory
of C11 for the orders named in lecture-06: a thread reads any store not older than what it
knows, and learns from an acquire that reads a release. Read-modify-writes read the last value.

**Synchronisation.** The threads and processes that meet only at mutexes, a semaphore and
atomic flags are straight code, so `Synchronisation` has one table, `Code`, with the calls of
each thread of each of six programs, and one action for each kind of call. `Lock` is the one
place that tells a robust mutex from another. `mutex.c`, `pthreads.c` and `c11.c` are one
program, `counter`: they differ in the names of the calls.

**Families.** Programs that do the same with different means, or are checked for the same, are
checked together. A family module declares the variables of its members and a rigid variable
`program` that says which of them a behaviour is a run of, instantiates every member, guards
its steps by `program`, and states the properties once, for all. A member owns its Init and
its steps, and states those parts that only it has. The initial states, and so all others, of
different members are disjoint: a family is checked like its members one by one.

| family | members | shared |
|---|---|---|
| `MemoryOrders` | `TasSpinlockOrders`, `TicketSpinlockOrders` | `WeakCounter`, `LockClient` |
| `StoreBuffers` | `ShmHandshake`, `StoreBuffering` (plain, seq_cst), `PetersonTSO`, `TornValue` (aligned, straddling) | `TSO` |
| `Streams` | `Pipes`, `Fifos`, `Sockets` (inet, unix) | `StreamPair` |
| `NamedObjects` | `MessageQueues`, `NamedSemaphores`, `PriorityQueue` (prompt, late) | |
| `Ping` | ping.c and ping.go, both in this module | `Icmp` |
| `Transports` | tcp.go and echo.go (`LineStream`), udp.go (in `Transports` itself), `HttpGo` | |
| `SmallPrograms` | `Coroutines` (tokenizer.c, coro.c), `Forks`, and checksum() of ping.c in `SmallPrograms` itself | |

`RequestReply` is what every client and server of lecture-03/ipc, and echo.go, promise, and
`Delivery` what the one-way transports do. `TasSpinlock`, `TicketSpinlock` and `Peterson` serve
as the sequentially consistent specifications of their lecture-06 and store buffer versions.

**What the environment may do.** `SpuriousWakeup` (condition variables), `Kill` (a process
dies at any point), `Interrupt` and `Start` (the user stops both processes and runs the
program again; names and old messages stay), `Deliver`, `DeliverForeign` (the network loses,
doubles, delays and reorders answers, and packets for others arrive: answers, errors, and such
as ping.go cuts behind their end), `Fill` (TCP delivers
portions of any size), `Listen` that fails because the address is in use, `Tick` (time passes,
and a process may run late), `Exec` that fails, `GoAway` (an HTTP client leaves), `Send` of any
of a set of HTTP requests, with lines of the wrong form, several lengths and bodies of any
size. Data are as small as the properties allow: a text is a value, two halves of it where
copying is not atomic; a byte of the checksum has `Byte` values, a 16-bit field `Field`.

## 3. Runs

Sizes are the program's own where TLC can do them. Where they are not, the bound is chosen
so that the case a property is about happens several times.

| run | shows | bounds, and why they are enough |
|---|---|---|
| ThreadPool | no lost wakeup, one place for each task, shutdown, refinement of `TaskPool`, termination | 3 workers, 2 slots, 4 tasks, 1 spurious wakeup: the ring wraps and fills, a task is refused, all workers sleep, signals meet several sleepers |
| TicketSpinlock | atomic counter, FIFO, termination | 4 threads as in the program, 2 iterations, 5 tickets: the smallest number that excludes. The program draws 400 tickets from an `int`; that both counters wrap here makes the result more general |
| MemoryOrders | no race, implements the seq_cst locks | 3 threads, 2 iterations: a view passes through a third thread |
| StoreBuffers | handshake of shmem.c; Peterson's mutex excludes, keeps the turn, starves nobody and behaves as on sequentially consistent memory; genuine reports, none with seq_cst | ITERATIONS 5 of the program; 3 rounds, so that values of an old round could be mistaken; 4 iterations under the mutex: each thread can be overtaken and overtake again; 3 stores in the buffer of the writer, so that it is two values ahead |
| Streams | whole messages, request and reply, nobody left waiting, also in `open` | ITERATIONS 5, one kill: two leave nobody to wait |
| NamedObjects | what interrupted runs leave, order of priorities, every run ends | queues of 2 and 4 runs, 3 runs of semaphore.c: interrupted, clean, one more; the five messages of priority_queue.c, a clock of seven ticks a second where processes are prompt |
| Ping | true lines, honest times, the deadline; the loop goes on unless ping.go panics | 3 requests, fields of 3 values and the pids 2 and 4: the last seq and the larger pid outgrow the field; answers doubled, one foreign packet, steps up to a second late: an answer can be two requests late |
| PingLateAnswer, PingPanic | disagreements, see below | the same |
| Transports | delivery, echoes in turn, errors follow losses, HTTP answers, everything accounted for | 8 messages; a window of 3.5 lines, so that lines are cut; a socket for 3 datagrams; every request of up to two headers, lengths and bodies of up to two bytes: two different lengths, a body too short, exact and too long |
| SmallPrograms | words of every text, turns, lines of parent and child, checksum of every packet | texts to 6 characters with a buffer of 2: words longer than two buffers; packets to 10 bytes of two values, the longest whose sum fits, as 2^17 bytes do in the program |
| Synchronisation | exact counts, nothing consumed early, a dead owner noticed, who blocks | 4 threads and 5 items as in the programs, 3 children, 2 iterations, 2 kills anywhere: one before and one behind the owner |

`CHECK_DEADLOCK FALSE` stands in three runs in which the programs really stop: in Streams a
process waits in `open` or `accept` for a partner that was killed first; in NamedObjects a
client that opened before the server created the queue leaves both waiting (and no one need
start the program again); in Synchronisation a killed owner keeps a mutex that is not robust,
and deadlock.c does what its name says. The liveness properties of these runs say that these
are the only cases; `NoneLeftWaiting`, for one, would see both programs of mkfifo.c in the two
`open` calls for ever, had they opened the FIFOs in opposite orders.

Each module's `TypeOK` documents its state. The run ThreadPool checks one; those of the locks
are part of their proofs.

### Properties worth reading first

- `ThreadPool!WorkConserving`: while a worker sleeps, each queued task has an awake worker of
  its own that is coming for it. This is what "signal once per task" has to achieve.
- `ThreadPool!ImplementsTaskPool`, `TicketSpinlock!ImplementsFifoLock`,
  `MemoryOrders!ImplementsScSpinlock`, `StoreBuffers!ImplementsScPeterson`,
  `Streams!ImplementsRequestReply`, `Transports!ImplementsPromise`: refinements.
- `StoreBuffers!NoStarvation`, `StoreBuffers!TurnKept`: a thread that waits for Peterson's
  mutex is overtaken once.
- `StoreBuffers!ReportIsGenuine`: the zeros that the reordering experiment reports are not
  leftovers, and the values called torn are torn or the first 0.
- `NamedObjects!OneLeftPerRun`: however often the user interrupts, the two sides of queue.c
  and semaphore.c are never further out of step than there were runs.
- `Synchronisation!EndsUnlessBlocked`: every program ends, unless a process was killed with a
  mutex that is not robust, or the threads of deadlock.c each hold what the other wants; so the
  child of mutex_death.c may die anywhere.
- `Ping!LinesAreTrue`: neither packets for others nor late answers to older requests make a
  program report a timeout for a request that was answered in time; ping.go's lines are about
  their own requests, ping.c's about requests it has made.
- `Transports!ToldTheTruth`: what udp.go's and the HTTP client are told is what happened.

### Where the code does not keep what it says

- Run PingLateAnswer. `ping.c` takes any answer with its id and never looks at `seq`
  (line 142): an answer that comes after "Request timed out" (line 165) is printed as the
  answer to the next request, with too short a time. `ping.go` compares `seq` (line 111).
- Run PingPanic. `ping.go` computes the length of an IP header (line 95) from a packet whose
  IP header `ipv4.PacketConn` has taken off: from the ICMP type, which is 0 in answers, so that
  those are read rightly. A packet for others that is shorter than four times its type, such as
  a time exceeded of 36 bytes, makes the slice in line 97 panic, and the program ends. `ping.c`
  has the test that is missing (line 137). `LoopGoesOn` has this one exception.
- `ping.c` compares the 16-bit id of the answer with the whole pid, and `ping.go` the 16-bit
  seq with an int that is never reduced. With a pid above 65535, or from the 65536th request
  on, every answer is a foreign one: `Outgrown` in `LinesAreTrue` is this exception.
- `pipes.c` does not keep the promise of `RequestReply`: text and NUL are two `write` calls,
  and a `read` between them makes two messages of one. `MessagesStayWhole` says what is left:
  without split reads all is right, and never is a message doubled or overtaken.
- `cpu_non_atomic.c` calls the 0 from before the first store a torn value (line 37).
- `fork.c` prints its first line twice into a file or a pipe, and `vfork.c` may lose its last
  there, if the C library's exit leaves the buffer as it is (glibc's makes stdout unbuffered),
  because the child has returned from `main` on its parent's stack. `EachLineOnce` permits the
  loss and does not ask for it.

## 4. Fairness

Every liveness property assumes weak fairness of the steps of each thread or process: the
kernel runs what can run. Nothing else is owed: no spurious wakeup, no delivery by a network,
no user, no kill. Time passes (weak fairness of the clock) in `Ping` and `PriorityQueue`,
store buffers drain in the handshake and under the mutex of `StoreBuffers`, and an HTTP client
that stays sends what it means to send and reads the answer.

Locks are not assumed fair. The pool's and those of `Synchronisation` need not be, since tasks
and iterations are finite: whoever is overtaken gets the lock when the others are through. The
ticket lock and Peterson's are fair by themselves, and this is proved for the first
(`TicketLockIsFifo`) and checked for the second (`NoStarvation`).

## 5. Proofs

All are about the specifications without fairness, for every value of the constants that the
ASSUMEs allow: at least one thread, worker, slot, task, iteration, item, request and run; for
the ticket lock fewer threads than tickets, and for the lecture-06 one tickets that do not wrap
(`NoWrapAssumption`); for priority_queue.c a prompt machine (`PromptAssumption`, below). Each
proof module has an inductive invariant that TLC has checked on the run's instance, too.

**The pool** (`ThreadPool_proofs`). The inductive
invariant `IInv` of `ThreadPool` is the conjunction of
`TypeOK`; `LockInv` (a thread is in a critical section iff it owns the lock); `LoopInv`
(where main's `i` is, and which workers it has started and joined); `RingInv` (what a thread
learnt of `count` under the lock is still true); `RearInv` (`rear` is `count` slots after
`front`); `WaitInv` (waiters are those at the wait); `StopInv` (stop is for good, and a
worker leaves only a drained pool); and `StopReachesSleepers`. None of the safety properties
is inductive without it: that `count` never exceeds the ring, say, needs that only the owner of the
lock is past the test. From it follow `TypeCorrect`, `StopWakesAll` and `DestroyAfterWorkers`.
`NoLostWakeup` is a second induction over `IInv`, on the number of workers that are awake:
a worker goes to sleep only when nothing is queued, takes the task it was counted for, and a
signal makes one sleeper awake for the task just added; spurious wakeups only help.

For the refinement `RefineInv` adds `CopyInv` (a slot that was read or written is still the
one the index points to), `SubmitInv` (the tasks known to the abstract pool are those main
has submitted) and `ArgInv` (which arguments are allocated). Arithmetic modulo the ring's
size is in six lemmas (`ModSmall` to `PushRear`, `SlotAtInjective`, `SlotAtShift`). Pushing
appends to the abstract queue and popping takes its head; every other step changes nothing
abstract. So `PoolImplementsTaskPool`, and with the abstract invariant `OnePlaceInv` and counting
lemmas `TaskNeverLostOrDoubled` and `DestroyDrains`.

**The locks** (`Spinlocks_proofs`). First, for any lock, the client's part of an
invariant is kept, and a lock that excludes makes the client an atomic counter; the ticket lock
and the locks of lecture-06 cite this, and `StoreBuffers_proofs` repeats it for Peterson's client,
whose counter is not always in memory. The ticket lock needs `TicketInv` (tickets between `now_serving`
and `next_ticket` are each held by one thread, at a distance from `now_serving` in modular
arithmetic) and `ServedInv`; it proves exclusion and the exact count although tickets may wrap in
the model, and FIFO order by a mapping of the tickets that are out to a queue of threads.

**Peterson's mutex on store buffers** (`StoreBuffers_proofs`). `PetersonOnStoreBuffers`: with
an atomic flag and turn and a plain counter the program implements `Peterson`, where memory is
sequentially consistent. Under the mapping the counter is the last value stored, in memory or
on its way (`Latest`). The invariant is Peterson's argument for flags in memory (`LockInv`)
and `BufferInv`: a buffer is empty, or holds the counter alone, while its thread is about to
unlock. Both are needed at once. The exchange in `Unlock` waits for the buffer, so the next
owner reads what the last one wrote; and since the owner is alone nobody else has the counter
in a buffer. A flush changes nothing abstract, every other step is the step of the same name.
From the same invariant come `PetersonExcludes`, `PetersonKeepsTurn` (no waiting thread loses
the turn it was given) and, with the client's lemmas for `Latest`,
`PetersonCounts`: no increment is lost.

**The other programs on store buffers** (`StoreBuffers_proofs`). `ReportsAreGenuine` has an
invariant for each experiment. `ExperimentInv` says where a thread's store is (`Progress`), that
of two loads that have not overtaken their stores one has seen the other's (`OneSees`), and that
main looks when both threads have ended and nothing waits (`MainKnows`). `StraddlingInv` says
that while the memory met by the reader is not mixed it is one value, which the reader has read;
for `AlignedInv` there is only one part. No bound on the writer's buffer is used.

`HandshakeIsRequestReply` is about shmem.c, for any number of iterations. A process stores the
same four things in each round, in the same order, so `HandshakeInv` knows each buffer from the
number of its stores: it holds the last ones of the round (`LastOf`). What is in memory depends
on how many have reached it, and the two counts go round together through three phases
(`Asking`, `Serving`, `Answering`). A flag that is seen thus vouches for the text stored before
it, which is the whole of the handshake's argument, and it needs the buffers to be FIFO.

**Memory orders** (`Spinlocks_proofs`). `Synchronised` is the heart of both locks: whoever is
inside knows every store, and the last one is the counter. What hands this on from owner to
owner is the view that goes with the release: of the clear flag (`TasInv`), of the latest
`now_serving` (`WeakTicketInv`, where no reader of an older value can hold the ticket served, because
no ticket is drawn twice; that is counted with the set `Drawn`). From it follow `NoDataRace`,
`OrdersExclude`, and, since an owner's load returns the last store, `OrdersImplementScSpinlock`.

**Mutexes, semaphore and flags** (`Synchronisation_proofs`). Since the programs are a table, the
invariants speak of places in it. `CountInv`: the place of a thread in its round of four calls
says whether it has the mutex, and whether what it loaded is still the value, which is the
number of stores made. `SemaphoreInv` balances posts, waits and the value of the semaphore, and
what was produced and consumed between them. `LivelockInv`: of two threads that have both looked
one saw the other's flag. `DeathInv` follows the mutex from a child that may be killed at any call to the
parent that repairs the value. They give `NoIncrementLost` (of processes, too),
`NothingTooEarly` and `DeathIsAlwaysNoticed`.

**Ping** (`Ping_proofs`). Beside types and the deadline itself, the invariant says that nothing
is in the air or in the socket but answers to requests made and packets of strangers
(`PacketsAreKnown`); that of one request the air, the socket and the printed lines together have
at most the two answers the network made (`TwoAnswersAtMost`); and that while the program is
not late, an answer that came in time is still in the socket and the deadline ahead
(`AnswerStillWaits`), which is why a timeout is never printed over it. From these follow
`LinesAreAlwaysTrue`, `DeadlineIsKept` and, step by step, `TimesAreAlwaysHonest`, for fields of any
two or more values, any pid, any number of strangers and any lateness. The panic of ping.go is a
step like the others (`PanicKeepsInv`): it leaves a request without a line, and no line untrue.

**Named objects** (`NamedObjects_proofs`). `NoMoreThanOneLeftPerRun` is an account of tokens: a
run of queue.c or semaphore.c brings one message or post in, which its two processes hand to
each other; `QueueTokens` and `SemTokens` count what lies in the kernel and what a process owes.
An interrupt can only lose a token. `CleanAfterCleanEnd` needs that a run that comes to its end
by itself leaves no names, whatever it found, so that its queues and semaphores go with it, and
that in the run after it all that is about is of this run, in order (`QueueInOrder`,
`SemInOrder`). For priority_queue.c, `ClientOnTime` bounds the
clock by what a prompt client can be late at each send, so that with
`Iterations * (Second + MaxLate) + MaxLate < Nap * Second` the server wakes up after the last
one (`StillAsleep`), and `FromTheTop` says what it takes then: `HighestIsHeardFirst`. The
assumption says in numbers what a prompt machine is: the six seconds of the server against the
client's five, and what the processes may be late by. Without it the property is false; what is
left then is checked on the late machine of the same run (`EveryRunEnds`).

**Byte streams** (`Streams_proofs`). The invariant speaks of two numbers, the pings `a` that
the client has printed and the pings `h` that the server has. `Turn`: one ping is on its way to
the server, or its echo back, but never both, and it is in one of three states: nothing of it,
its text, or text and NUL, in the stream or in the reader's buffer. `ClientAt` and `ServerAt`
tie the places in the two programs to these numbers, `Alone` allows an empty last line only to a
process whose partner is dead and whose next `write` kills it. For mkfifo.c, `FifoEnds` says who
holds which end open and `Meeting` that nobody is through with an `open` before the other is at
it: without it a reader could find the end of a stream that has only not been opened. For
pipes.c, where reads may fall anywhere, `TurnsTaken` holds as long as no read was split, and
`Order` always: what the client has printed comes before what is on its way to it, and this, while
the server lives, and what the server has printed, before what is on its way to the server, and
all not after the client's next request. So `PingsAreAnswered` and `OnlySplitReadsBreak`, for any
number of iterations and a kill at any point. The abstract state is what was printed but for an
empty last line (`Spoken`), and a count of the texts on their way.

**Transports** (`Transports_proofs`). `Spaced` says of tcp.go and echo.go that what is on its way,
in the connection and in the reader's buffer together, are the messages between those received
and those sent, each with its newline, wherever TCP has cut the stream; `EchoInv` has it for both
directions, and that there is one message at a time. `UdpInv`: the numbers received and those
in the socket increase, and an error follows the loss of a datagram sent before anybody listened.
`HttpInv` follows the server through a request: `Position` is how much it has read, `Unread` says
that its input is the rest, `Reading` what it knows of the headers at that point (that the last
Content-Length counts), and `Answered` that the answer is what the request deserves and is lost
only if there was or came more to read. They give `AllAreToldTheTruth` and `PromisesAreKept` for
every number of messages, every window, socket and limit on headers and bodies.

**Only model-checked.** All liveness and fairness, which the prover does not do:
`Terminates`, `HandshakeEnds`, `NoStarvation`, `NoneLeftWaiting`, `EveryRunEnds`, `LoopGoesOn`,
`AllArrive`, `EndsUnlessBlocked`. Of the safety properties two: what folds, `SelectSeq` and sorted
sequences compute for every input needs induction over data (`PrintsTheLines`,
`InternetChecksum`); they are checked for every text and every packet up to the bounds.

## 6. Not modelled

- `http.go`: the connection, the parser and the loop are those of `net/http`. Of
  `application/tcp.go`, lengths that are not natural numbers.
- Measurements (caches, malloc, huge pages, affinity, attributes, false sharing, goroutines,
  gc), which have no state of their own that another thread or process could meet, and the
  functions of lecture-05 that are to be read as assembly.
- Of the modelled programs: failures of `malloc`, `fork` and `pthread_create`, which most of
  them do not check; two overlapping runs on the same FIFO or socket; messages that an
  interrupted priority_queue.c leaves; strangers' packets to ping whose identifier is the
  program's own, as of a second ping whose pid agrees in 16 bits, or in which ping.go, reading at
  the wrong place, finds what looks like its answer; failures of `select` and `recvfrom` in
  ping.c (the first is reported as a timeout too early, the second changes nothing); an HTTP
  client that closes only its sending side; the bytes of a coroutine's stack; tickets that wrap
  in the lecture-06 lock.

## 7. Plan

Done, in this order: the pool and its proofs; the locks and theirs; memory orders and store
buffers; the IPC programs; ping and the transports; sequential code; then mutexes, semaphores
and flags between threads and processes, torn values, the HTTP server, coro.c and the fork
family; and proofs of what the programs on store buffers, the memory orders, ping, the
programs under mutexes, those with named objects, the byte streams and the transports promise.

Next, in order of importance:

1. Overlapping runs on the same FIFO and socket names; interrupted runs of priority_queue.c.
2. Proofs of the finite parts of `PrintsTheLines`: coro.c and the fork family.
