------------------------------ MODULE ThreadPool ------------------------------
(***************************************************************************)
(* The thread pool of lecture-04/thread_pool/thread_pool.c with the program*)
(* around it: main() creates the workers, submits NumTasks tasks and then  *)
(* destroys the pool.  Every pthread call is one step; inside a critical   *)
(* section the test, the access to the ring's slot and the update of the   *)
(* indices are separate steps, so what the lock protects is exercised.     *)
(***************************************************************************)
EXTENDS Naturals, FiniteSets, Sequences

CONSTANTS
  NumThreads,     \* num_threads of main()
  MaxQueueSize,   \* MAX_QUEUE_SIZE
  NumTasks,       \* the tasks main() submits (5 in the source)
  MaxSpurious     \* bound: how many times pthread_cond_wait returns unsignalled

ASSUME ThreadPoolAssumption ==
  /\ NumThreads \in Nat \ {0}
  /\ MaxQueueSize \in Nat \ {0}
  /\ NumTasks \in Nat \ {0}
  /\ MaxSpurious \in Nat

Workers == 0 .. NumThreads - 1
Main    == NumThreads           \* main()'s identity as an owner of the lock
Nobody  == NumThreads + 1       \* the lock is free
Slots   == 0 .. MaxQueueSize - 1
Tasks   == 0 .. NumTasks - 1
NoTask  == NumTasks             \* an uninitialised slot or local variable

VARIABLES
  queue,      \* pool->queue
  front,      \* pool->front
  rear,       \* pool->rear
  count,      \* pool->count
  stop,       \* pool->stop
  lock,       \* owner of pool->lock
  waiters,    \* the workers blocked on pool->has_tasks
  wpc,        \* where each worker is in worker_thread
  task,       \* each worker's local `task'
  mpc,        \* where main is
  i,          \* the loop counter main is using
  arg,        \* the TaskArg of each task: "none", "allocated" or "freed"
  rejected,   \* the tasks for which the queue was reported full
  spurious    \* how many spurious wakeups have happened

ring == <<queue, front, rear, count>>
vars == <<ring, stop, lock, waiters, wpc, task, mpc, i, arg, rejected, spurious>>

WorkerPc == {"none", "lock", "test", "take", "wait", "relock", "pop",
             "unlock", "run", "exit", "done"}
MainPc == {"create", "malloc", "add_lock", "add_check", "add_write",
           "add_push", "add_signal", "add_unlock", "stop_lock", "stop_set",
           "stop_broadcast", "stop_unlock", "join", "free", "done"}

TypeOK ==
  /\ queue \in [Slots -> Tasks \cup {NoTask}]
  /\ front \in Slots /\ rear \in Slots
  /\ count \in 0 .. MaxQueueSize
  /\ stop \in BOOLEAN
  /\ lock \in Workers \cup {Main, Nobody}
  /\ waiters \in SUBSET Workers
  /\ wpc \in [Workers -> WorkerPc]
  /\ task \in [Workers -> Tasks \cup {NoTask}]
  /\ mpc \in MainPc
  /\ i \in Nat
  /\ arg \in [Tasks -> {"none", "allocated", "freed"}]
  /\ rejected \in SUBSET Tasks
  /\ spurious \in 0 .. MaxSpurious

\* thread_pool_init up to its loop; the slots and locals hold no task yet.
Init ==
  /\ queue = [s \in Slots |-> NoTask]
  /\ front = 0 /\ rear = 0 /\ count = 0
  /\ stop = FALSE
  /\ lock = Nobody
  /\ waiters = {}
  /\ wpc = [w \in Workers |-> "none"]
  /\ task = [w \in Workers |-> NoTask]
  /\ mpc = "create"
  /\ i = 0
  /\ arg = [t \in Tasks |-> "none"]
  /\ rejected = {}
  /\ spurious = 0

-------------------------------------------------------------------------------
(* Steps of a thread and the calls it makes.                               *)

WGoto(w, from, to) == wpc[w] = from /\ wpc' = [wpc EXCEPT ![w] = to]
MGoto(from, to) == mpc = from /\ mpc' = to

\* pthread_mutex_lock and pthread_mutex_unlock.
Acquire(thread) == lock = Nobody /\ lock' = thread
Release == lock' = Nobody

Succ(slot) == (slot + 1) % MaxQueueSize

\* Mutant: the bound is off by one.
QueueFullOffByOne == count > MaxQueueSize

QueueFull == count = MaxQueueSize

\* Waking the workers ws: pthread_cond_wait goes on to take the lock again.
Wake(ws) ==
  /\ waiters' = waiters \ ws
  /\ wpc' = [w \in Workers |-> IF w \in ws THEN "relock" ELSE wpc[w]]

-------------------------------------------------------------------------------
(* worker_thread                                                           *)

WLock(w) ==
  /\ WGoto(w, "lock", "test")
  /\ Acquire(w)
  /\ UNCHANGED <<ring, stop, waiters, task, mpc, i, arg, rejected, spurious>>

\* The while condition holds: pthread_cond_wait releases the lock and blocks.
WWait(w) ==
  /\ count = 0 /\ ~stop
  /\ WGoto(w, "test", "wait")
  /\ Release
  /\ waiters' = waiters \cup {w}
  /\ UNCHANGED <<ring, stop, task, mpc, i, arg, rejected, spurious>>

\* A woken worker has to take the lock again before pthread_cond_wait returns.
WRelock(w) ==
  /\ WGoto(w, "relock", "test")
  /\ Acquire(w)
  /\ UNCHANGED <<ring, stop, waiters, task, mpc, i, arg, rejected, spurious>>

\* pthread_cond_wait may return though nobody signalled.
SpuriousWakeup(w) ==
  /\ w \in waiters
  /\ spurious < MaxSpurious
  /\ spurious' = spurious + 1
  /\ Wake({w})
  /\ UNCHANGED <<ring, stop, lock, task, mpc, i, arg, rejected>>

\* Mutant: a stopped worker leaves whatever is still queued.
WTestStopOnly(w) ==
  /\ count # 0 \/ stop
  /\ WGoto(w, "test", IF stop THEN "exit" ELSE "take")
  /\ UNCHANGED <<ring, stop, lock, waiters, task, mpc, i, arg, rejected, spurious>>

\* The while condition fails: leave if stopped and drained, else take a task.
WTest(w) ==
  /\ count # 0 \/ stop
  /\ WGoto(w, "test", IF stop /\ count = 0 THEN "exit" ELSE "take")
  /\ UNCHANGED <<ring, stop, lock, waiters, task, mpc, i, arg, rejected, spurious>>

\* Mutant: the lock is given up between reading the slot and moving front.
WTakeUnlocked(w) ==
  /\ WGoto(w, "take", "pop")
  /\ task' = [task EXCEPT ![w] = queue[front]]
  /\ Release
  /\ UNCHANGED <<ring, stop, waiters, mpc, i, arg, rejected, spurious>>

WTake(w) ==
  /\ WGoto(w, "take", "pop")
  /\ task' = [task EXCEPT ![w] = queue[front]]
  /\ UNCHANGED <<ring, stop, lock, waiters, mpc, i, arg, rejected, spurious>>

WPop(w) ==
  /\ WGoto(w, "pop", "unlock")
  /\ front' = Succ(front)
  /\ count' = count - 1
  /\ UNCHANGED <<queue, rear, stop, lock, waiters, task, mpc, i, arg, rejected, spurious>>

WUnlock(w) ==
  /\ WGoto(w, "unlock", "run")
  /\ Release
  /\ UNCHANGED <<ring, stop, waiters, task, mpc, i, arg, rejected, spurious>>

\* task.function(task.arg): print_task runs to its end and frees its argument.
WRun(w) ==
  /\ WGoto(w, "run", "lock")
  /\ arg' = [arg EXCEPT ![task[w]] = "freed"]
  /\ UNCHANGED <<ring, stop, lock, waiters, task, mpc, i, rejected, spurious>>

\* Mutant: the loop of worker_thread without its `break'.
WExitNoBreak(w) ==
  /\ WGoto(w, "exit", "lock")
  /\ Release
  /\ UNCHANGED <<ring, stop, waiters, task, mpc, i, arg, rejected, spurious>>

WExit(w) ==
  /\ WGoto(w, "exit", "done")
  /\ Release
  /\ UNCHANGED <<ring, stop, waiters, task, mpc, i, arg, rejected, spurious>>

-------------------------------------------------------------------------------
(* main: thread_pool_init, the loop over thread_pool_add_task, and         *)
(* thread_pool_destroy.                                                    *)

\* pthread_create(&pool->threads[i], ...): worker i starts.
CreateWorker ==
  /\ MGoto("create", IF i + 1 < NumThreads THEN "create" ELSE "malloc")
  /\ wpc' = [wpc EXCEPT ![i] = "lock"]
  /\ i' = IF i + 1 < NumThreads THEN i + 1 ELSE 0
  /\ UNCHANGED <<ring, stop, lock, waiters, task, arg, rejected, spurious>>

MallocArg ==
  /\ MGoto("malloc", "add_lock")
  /\ arg' = [arg EXCEPT ![i] = "allocated"]
  /\ UNCHANGED <<ring, stop, lock, waiters, wpc, task, i, rejected, spurious>>

AddLock ==
  /\ MGoto("add_lock", "add_check")
  /\ Acquire(Main)
  /\ UNCHANGED <<ring, stop, waiters, wpc, task, i, arg, rejected, spurious>>

\* The queue is full: the task is reported on stderr and dropped.
AddFull ==
  /\ QueueFull
  /\ MGoto("add_check", "add_unlock")
  /\ rejected' = rejected \cup {i}
  /\ UNCHANGED <<ring, stop, lock, waiters, wpc, task, i, arg, spurious>>

AddCheck ==
  /\ ~QueueFull
  /\ MGoto("add_check", "add_write")
  /\ UNCHANGED <<ring, stop, lock, waiters, wpc, task, i, arg, rejected, spurious>>

AddWrite ==
  /\ MGoto("add_write", "add_push")
  /\ queue' = [queue EXCEPT ![rear] = i]
  /\ UNCHANGED <<front, rear, count, stop, lock, waiters, wpc, task, i, arg, rejected, spurious>>

AddPush ==
  /\ MGoto("add_push", "add_signal")
  /\ rear' = Succ(rear)
  /\ count' = count + 1
  /\ UNCHANGED <<queue, front, stop, lock, waiters, wpc, task, i, arg, rejected, spurious>>

\* Mutant: the task is queued without a signal.
AddNoSignal ==
  /\ MGoto("add_signal", "add_unlock")
  /\ UNCHANGED <<ring, stop, lock, waiters, wpc, task, i, arg, rejected, spurious>>

\* pthread_cond_signal: one of the waiting workers, if there is any, is woken.
AddSignal ==
  /\ MGoto("add_signal", "add_unlock")
  /\ \/ waiters = {} /\ UNCHANGED <<waiters, wpc>>
     \/ \E w \in waiters : Wake({w})
  /\ UNCHANGED <<ring, stop, lock, task, i, arg, rejected, spurious>>

AddUnlock ==
  /\ MGoto("add_unlock", IF i + 1 < NumTasks THEN "malloc" ELSE "stop_lock")
  /\ Release
  /\ i' = i + 1
  /\ UNCHANGED <<ring, stop, waiters, wpc, task, arg, rejected, spurious>>

StopLock ==
  /\ MGoto("stop_lock", "stop_set")
  /\ Acquire(Main)
  /\ UNCHANGED <<ring, stop, waiters, wpc, task, i, arg, rejected, spurious>>

StopSet ==
  /\ MGoto("stop_set", "stop_broadcast")
  /\ stop' = TRUE
  /\ UNCHANGED <<ring, lock, waiters, wpc, task, i, arg, rejected, spurious>>

\* Mutant: pthread_cond_signal where the shutdown needs a broadcast.
StopSignal ==
  /\ MGoto("stop_broadcast", "stop_unlock")
  /\ \/ waiters = {} /\ UNCHANGED <<waiters, wpc>>
     \/ \E w \in waiters : Wake({w})
  /\ UNCHANGED <<ring, stop, lock, task, i, arg, rejected, spurious>>

StopBroadcast ==
  /\ MGoto("stop_broadcast", "stop_unlock")
  /\ Wake(waiters)
  /\ UNCHANGED <<ring, stop, lock, task, i, arg, rejected, spurious>>

StopUnlock ==
  /\ MGoto("stop_unlock", "join")
  /\ Release
  /\ i' = 0
  /\ UNCHANGED <<ring, stop, waiters, wpc, task, arg, rejected, spurious>>

\* Mutant: the last worker is not joined.
JoinAllButOne ==
  /\ MGoto("join", IF i + 1 < NumThreads THEN "join" ELSE "free")
  /\ i + 1 < NumThreads => wpc[i] = "done"
  /\ i' = i + 1
  /\ UNCHANGED <<ring, stop, lock, waiters, wpc, task, arg, rejected, spurious>>

\* pthread_join(pool->threads[i], NULL)
Join ==
  /\ MGoto("join", IF i + 1 < NumThreads THEN "join" ELSE "free")
  /\ wpc[i] = "done"
  /\ i' = i + 1
  /\ UNCHANGED <<ring, stop, lock, waiters, wpc, task, arg, rejected, spurious>>

\* free(pool->threads) and the destruction of the lock and the condition.
Destroy ==
  /\ MGoto("free", "done")
  /\ UNCHANGED <<ring, stop, lock, waiters, wpc, task, i, arg, rejected, spurious>>

\* main has returned and the process is gone.
Terminated == mpc = "done" /\ UNCHANGED vars

-------------------------------------------------------------------------------

Worker(w) ==
  \/ WLock(w) \/ WWait(w) \/ WRelock(w) \/ WTest(w) \/ WTake(w)
  \/ WPop(w) \/ WUnlock(w) \/ WRun(w) \/ WExit(w)

MainThread ==
  \/ CreateWorker \/ MallocArg
  \/ AddLock \/ AddFull \/ AddCheck \/ AddWrite \/ AddPush \/ AddSignal \/ AddUnlock
  \/ StopLock \/ StopSet \/ StopBroadcast \/ StopUnlock \/ Join \/ Destroy

Next ==
  \/ MainThread
  \/ \E w \in Workers : Worker(w) \/ SpuriousWakeup(w)
  \/ Terminated

\* The kernel schedules every runnable thread.  Spurious wakeups are not owed.
Fairness ==
  /\ WF_vars(MainThread)
  /\ \A w \in Workers : WF_vars(Worker(w))

Spec == Init /\ [][Next]_vars

FairSpec == Spec /\ Fairness

-------------------------------------------------------------------------------
(* Where a task is, and which workers are on their way to the queue.       *)

\* The slots from front on that hold a pending task, oldest first.
SlotAt(k) == (front + k) % MaxQueueSize
Occupied == {SlotAt(k) : k \in 0 .. count - 1}

InQueue(t) == {s \in Occupied : queue[s] = t}
InHands(t) == {w \in Workers : wpc[w] \in {"unlock", "run"} /\ task[w] = t}
WithMain(t) ==
  t = i /\ mpc \in {"add_lock", "add_check", "add_write", "add_push"}

\* The workers that will look at the queue before they block or leave.
Coming == {w \in Workers : wpc[w] \in {"lock", "relock", "test", "take", "pop"}}

-------------------------------------------------------------------------------
(* Safety                                                                  *)

\* No lost wakeup: while any worker sleeps on has_tasks, each queued task has
\* an awake worker of its own that is coming for it.  Only the task whose
\* signal main is about to send may still be without one.
WorkConserving ==
  waiters # {} =>
    count <= Cardinality(Coming) + (IF mpc = "add_signal" THEN 1 ELSE 0)

\* A task that main has allocated and nobody freed is in exactly one place:
\* with main, in one slot of the ring, in one worker's hands, or rejected; a
\* freed or not yet allocated one is in none.  So it runs, and its argument is
\* freed, at most once, and no task falls out of the ring.
TaskInOnePlace ==
  \A t \in Tasks :
    Cardinality(InQueue(t)) + Cardinality(InHands(t))
      + (IF t \in rejected THEN 1 ELSE 0) + (IF WithMain(t) THEN 1 ELSE 0)
    = IF arg[t] = "allocated" THEN 1 ELSE 0

\* Once stop is set and broadcast no worker is, or goes back to being, blocked
\* on has_tasks, so thread_pool_destroy cannot wait in pthread_join for a
\* worker that nobody will wake.
StopReachesSleepers == stop /\ waiters # {} => mpc = "stop_broadcast"

\* When thread_pool_destroy frees the thread array and destroys the lock and
\* the condition, no worker will touch them again: all have returned, the lock
\* is free and nobody is blocked on the condition.
DestroyIsSafe ==
  mpc \in {"free", "done"} =>
    /\ \A w \in Workers : wpc[w] = "done"
    /\ lock = Nobody
    /\ waiters = {}

\* thread_pool_destroy returns only after every accepted task has run; the
\* only arguments still allocated then are those of the rejected tasks.
ShutdownDrains ==
  mpc \in {"free", "done"} =>
    /\ count = 0
    /\ \A t \in Tasks : arg[t] = IF t \in rejected THEN "allocated" ELSE "freed"

-------------------------------------------------------------------------------
(* Why the safety properties hold: the parts of an inductive invariant.    *)

\* A thread is inside a critical section exactly when it owns the lock.
InWorkerSection(w) == wpc[w] \in {"test", "take", "pop", "unlock", "exit"}
InMainSection ==
  mpc \in {"add_check", "add_write", "add_push", "add_signal", "add_unlock",
           "stop_set", "stop_broadcast", "stop_unlock"}
LockInv ==
  /\ \A w \in Workers : lock = w <=> InWorkerSection(w)
  /\ lock = Main <=> InMainSection

\* main's loop counter is in the range of the loop main is in.
LoopInv ==
  /\ mpc = "create" =>
       i < NumThreads /\ \A w \in Workers : w >= i => wpc[w] = "none"
  /\ mpc \in {"malloc", "add_lock", "add_check", "add_write", "add_push",
              "add_signal", "add_unlock"} => i < NumTasks
  /\ mpc = "join" =>
       i < NumThreads /\ \A w \in Workers : w < i => wpc[w] = "done"
  /\ mpc \in {"free", "done"} => \A w \in Workers : wpc[w] = "done"

\* What a thread learnt about the ring under the lock stays true while it
\* holds the lock.
RingInv ==
  /\ \A w \in Workers : wpc[w] \in {"take", "pop"} => count # 0
  /\ mpc \in {"add_write", "add_push"} => count # MaxQueueSize

\* rear is where the next task goes: count slots after front.
RearInv == rear = SlotAt(count)

WaitInv == \A w \in Workers : w \in waiters <=> wpc[w] = "wait"

\* stop is set for good before the broadcast, and a worker leaves only a
\* stopped and drained pool, to which nothing is added any more.
StopInv ==
  /\ stop <=> mpc \in {"stop_broadcast", "stop_unlock", "join", "free", "done"}
  /\ \A w \in Workers : wpc[w] \in {"exit", "done"} => stop /\ count = 0

IInv ==
  /\ TypeOK
  /\ LockInv
  /\ LoopInv
  /\ RingInv
  /\ RearInv
  /\ WaitInv
  /\ StopInv
  /\ StopReachesSleepers

-------------------------------------------------------------------------------
(* The pool implements the abstract one: the ring's contents are the       *)
(* pending tasks, and a task leaves the queue when front moves past it.    *)

Waiting == [k \in 1 .. count |-> queue[SlotAt(k - 1)]]
Busy == [w \in Workers |-> IF wpc[w] \in {"unlock", "run"} THEN task[w] ELSE NoTask]
Freed == {t \in Tasks : arg[t] = "freed"}
Phase == IF mpc = "done" THEN "down" ELSE IF stop THEN "closing" ELSE "open"

Pool == INSTANCE TaskPool WITH
  Capacity <- MaxQueueSize,
  pending  <- Waiting,
  running  <- Busy,
  finished <- Freed,
  phase    <- Phase

\* First-in first-out, bounded, at most once, and down only when drained.
ImplementsTaskPool == Pool!Spec

\* The tasks main has handed to thread_pool_add_task, which either queued or
\* rejected them, are the tasks below Submitted.
Submitted ==
  CASE mpc = "create" -> 0
    [] mpc \in {"malloc", "add_lock", "add_check", "add_write", "add_push"} -> i
    [] mpc \in {"add_signal", "add_unlock"} -> i + 1
    [] OTHER -> NumTasks

SubmitInv == \A t \in Tasks : t \in Pool!Known <=> t < Submitted

\* The slot main has written and the slot a worker has read are the ones the
\* indices still point to; every occupied slot and every busy worker has a task.
CopyInv ==
  /\ mpc = "add_push" => queue[rear] = i
  /\ \A w \in Workers : wpc[w] = "pop" => task[w] = queue[front]
  /\ \A w \in Workers : wpc[w] \in {"unlock", "run"} => task[w] \in Tasks
  /\ \A k \in 0 .. count - 1 : queue[SlotAt(k)] \in Tasks

\* The arguments main has allocated so far.
ArgInv ==
  \A t \in Tasks :
    arg[t] = "none" <=> t >= Submitted /\ ~WithMain(t)

RefineInv == IInv /\ CopyInv /\ SubmitInv /\ ArgInv

-------------------------------------------------------------------------------
(* Liveness                                                                *)

\* The program ends: no worker sleeps through the shutdown and no join hangs.
Terminates == <>(mpc = "done")
===============================================================================
