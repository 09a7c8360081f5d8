---------------------------- MODULE Synchronisation ----------------------------
(***************************************************************************)
(* The course's small programs of threads or processes that meet only at   *)
(* mutexes, semaphores and atomic flags: mutex.c, semaphore.c, deadlock.c, *)
(* livelock.c, mutex_shared.c, mutex_death.c, and pthreads.c and c11.c of  *)
(* lecture-08.  Their code is straight: a table gives the calls of each    *)
(* thread, and a behaviour is a run of one program, a call at a time.      *)
(***************************************************************************)
EXTENDS Integers, Sequences, FiniteSets

CONSTANTS
  Workers,      \* the threads that increment the counter: 4
  Children,     \* the processes that do: 4
  Iterations,   \* how often each of them does: 100 or 100000
  Items,        \* how often semaphore.c posts and waits: 5
  MaxKills      \* bound: the child processes killed from outside

ASSUME SynchronisationAssumption ==
  /\ {Workers, Children, Iterations, Items} \subseteq Nat \ {0}
  /\ MaxKills \in 0 .. Children

Op(call, on) == [call |-> call, on |-> on]

Repeat(calls, n) == [k \in 1 .. n * Len(calls) |-> calls[((k - 1) % Len(calls)) + 1]]
Each(call, n) == [k \in 1 .. n |-> Op(call, k)]

-------------------------------------------------------------------------------
(* The calls of each thread.  main is 0; the threads and children are 1, 2, *)
(* and so on.                                                              *)

\* counter++ on a plain int is a load and a store.
Increment == <<Op("lock", 1), Op("load", 0), Op("store", 0), Op("unlock", 1)>>

\* pthreads.c and c11.c differ in the names of the calls.
Counting(n) == [t \in 1 .. n |-> Repeat(Increment, Iterations)]

\* Mutant: the writer posts before it has produced.
PostFirst == Repeat(<<Op("post", 0), Op("produce", 0)>>, Items)

Writer == Repeat(<<Op("produce", 0), Op("post", 0)>>, Items)
Reader == Repeat(<<Op("wait", 0), Op("consume", 0)>>, Items)

Thread1 == <<Op("lock", 1), Op("lock", 2), Op("unlock", 2), Op("unlock", 1)>>

\* Mutant: thread2 unlocks one mutex twice.
UnlockTwice == <<Op("lock", 2), Op("lock", 1), Op("unlock", 1), Op("unlock", 1)>>

Thread2 == <<Op("lock", 2), Op("lock", 1), Op("unlock", 1), Op("unlock", 2)>>

\* Each thread of livelock.c, round and round: the flag is lowered after the
\* work, or, if the other's flag is up, without it.
Polite == <<Op("raise", 0), Op("look", 0), Op("work", 0), Op("lower", 0)>>

\* The child of mutex_death.c leaves with the mutex.
Dying == <<Op("lock", 1), Op("set", 42)>>

Threaded(n) == Each("create", n) \o Each("join", n)
Forking(n) == Each("create", n) \o Each("reap", n)
Recovering ==
  Threaded(1) \o <<Op("lock", 1), Op("recover", 1), Op("set", 99), Op("unlock", 1)>>

With(main, threads) == [t \in 0 .. Len(threads) |-> IF t = 0 THEN main ELSE threads[t]]

Code ==
  [ counter      |-> With(Threaded(Workers), Counting(Workers)),
    mutex_shared |-> With(Forking(Children), Counting(Children)),
    mutex_death  |-> With(Recovering, <<Dying>>),
    semaphore    |-> With(Threaded(2), <<Writer, Reader>>),
    deadlock     |-> With(Threaded(2), <<Thread1, Thread2>>),
    livelock     |-> With(Threaded(2), <<Polite, Polite>>) ]

Processes == {"mutex_shared", "mutex_death"}

-------------------------------------------------------------------------------

VARIABLES
  program,    \* which of them runs
  pc,         \* the number of each thread's next call; 0 before it is created
  owner,      \* who holds each mutex
  dead_owner, \* pthread_mutex_lock has just returned EOWNERDEAD
  value,      \* shared_counter, data->counter, shm->value
  reg,        \* what each thread has loaded from it
  sem,        \* the semaphore
  flag,       \* whose flag of livelock.c is up
  killed      \* the processes that were killed

data == <<owner, dead_owner, value, reg, sem, flag>>
vars == <<program, pc, data, killed>>

Main == 0
Ids == DOMAIN Code[program]
Others == Ids \ {Main}

Nobody == -1
Ruined == -2    \* no call can lock it any more

Init ==
  /\ program \in DOMAIN Code
  /\ pc = [t \in Ids |-> IF t = Main THEN 1 ELSE 0]
  /\ owner = [m \in {1, 2} |-> Nobody] /\ dead_owner = FALSE
  /\ value = 0 /\ reg = [t \in Ids |-> 0]
  /\ sem = 0 /\ flag = {}
  /\ killed = {}

Ended(t) == t \in killed \/ pc[t] > Len(Code[program][t])
Running(t) == pc[t] > 0 /\ ~Ended(t)
Calls(t, call) == Running(t) /\ Code[program][t][pc[t]].call = call
On(t) == Code[program][t][pc[t]].on

\* The calls of one kind that thread t has made.
Made(t, call) == {k \in 1 .. pc[t] - 1 : Code[program][t][k].call = call}

\* The threads of livelock.c go round for ever.
GoOn(t, calls) ==
  pc' = [pc EXCEPT ![t] =
           IF program = "livelock" /\ t # Main THEN ((@ + calls - 1) % Len(Polite)) + 1
           ELSE @ + calls]

Return(t) == GoOn(t, 1)

Only(changed) == UNCHANGED <<program, killed>> /\ UNCHANGED changed

-------------------------------------------------------------------------------
(* Threads and processes                                                   *)

\* pthread_create, thrd_create, fork
Create(t) ==
  /\ Calls(t, "create")
  /\ pc' = [pc EXCEPT ![t] = @ + 1, ![On(t)] = 1]
  /\ Only(data)

\* pthread_join, thrd_join, waitpid
Join(t) == Calls(t, "join") /\ Ended(On(t)) /\ Return(t) /\ Only(data)

\* wait(NULL) takes any child that has ended.
Reap(t) ==
  /\ Calls(t, "reap")
  /\ On(t) <= Cardinality({c \in Others : Ended(c)})
  /\ Return(t) /\ Only(data)

\* A signal from outside ends a child of main; nothing unlocks its mutex.
Kill(c) ==
  /\ program \in Processes /\ Cardinality(killed) < MaxKills
  /\ Running(c)
  /\ killed' = killed \cup {c}
  /\ UNCHANGED <<program, pc, data>>

-------------------------------------------------------------------------------
(* Mutexes                                                                 *)

\* Mutant: without the attribute each process locks a mutex of its own.
LockPrivate(t) ==
  /\ Calls(t, "lock")
  /\ owner' = [owner EXCEPT ![On(t)] = t] /\ dead_owner' = FALSE
  /\ Return(t) /\ Only(<<value, reg, sem, flag>>)

\* pthread_mutex_lock, mtx_lock.  Only the mutex of mutex_death.c is robust: it
\* is given to the next who asks when its owner has ended.
Lock(t) ==
  LET holder == owner[On(t)]
      orphan == program = "mutex_death" /\ holder \in Others /\ Ended(holder)
  IN  /\ Calls(t, "lock")
      /\ holder = Nobody \/ orphan
      /\ owner' = [owner EXCEPT ![On(t)] = t] /\ dead_owner' = orphan
      /\ Return(t) /\ Only(<<value, reg, sem, flag>>)

\* pthread_mutex_unlock; a mutex that was not made consistent is lost by it.
Unlock(t) ==
  /\ Calls(t, "unlock")
  /\ owner' = [owner EXCEPT ![On(t)] = IF dead_owner THEN Ruined ELSE Nobody]
  /\ Return(t) /\ Only(<<dead_owner, value, reg, sem, flag>>)

\* Mutant: the mutex is not made consistent.
RecoverNot(t) ==
  /\ Calls(t, "recover")
  /\ GoOn(t, IF dead_owner THEN 1 ELSE 2)
  /\ Only(data)

\* The branches on rc: only after EOWNERDEAD is there something to repair, with
\* pthread_mutex_consistent and a new value.
Recover(t) ==
  /\ Calls(t, "recover")
  /\ GoOn(t, IF dead_owner THEN 1 ELSE 2)
  /\ dead_owner' = FALSE
  /\ Only(<<owner, value, reg, sem, flag>>)

Load(t) ==
  /\ Calls(t, "load")
  /\ reg' = [reg EXCEPT ![t] = value]
  /\ Return(t) /\ Only(<<owner, dead_owner, value, sem, flag>>)

Store(t) ==
  /\ Calls(t, "store")
  /\ value' = reg[t] + 1
  /\ Return(t) /\ Only(<<owner, dead_owner, reg, sem, flag>>)

Set(t) ==
  /\ Calls(t, "set")
  /\ value' = On(t)
  /\ Return(t) /\ Only(<<owner, dead_owner, reg, sem, flag>>)

-------------------------------------------------------------------------------
(* The semaphore and the flags                                             *)

\* printf, between the calls that matter
Talk(t) ==
  /\ \E call \in {"produce", "consume", "work"} : Calls(t, call)
  /\ Return(t) /\ Only(data)

Post(t) ==
  /\ Calls(t, "post")
  /\ sem' = sem + 1
  /\ Return(t) /\ Only(<<owner, dead_owner, value, reg, flag>>)

Wait(t) ==
  /\ Calls(t, "wait") /\ sem > 0
  /\ sem' = sem - 1
  /\ Return(t) /\ Only(<<owner, dead_owner, value, reg, flag>>)

Raise(t) ==
  /\ Calls(t, "raise")
  /\ flag' = flag \cup {t}
  /\ Return(t) /\ Only(<<owner, dead_owner, value, reg, sem>>)

Look(t) ==
  /\ Calls(t, "look")
  /\ GoOn(t, IF flag \ {t} # {} THEN 2 ELSE 1)
  /\ Only(data)

Lower(t) ==
  /\ Calls(t, "lower")
  /\ flag' = flag \ {t}
  /\ Return(t) /\ Only(<<owner, dead_owner, value, reg, sem>>)

-------------------------------------------------------------------------------

Step(t) ==
  \/ Create(t) \/ Join(t) \/ Reap(t)
  \/ Lock(t) \/ Unlock(t) \/ Recover(t) \/ Load(t) \/ Store(t) \/ Set(t)
  \/ Talk(t) \/ Post(t) \/ Wait(t) \/ Raise(t) \/ Look(t) \/ Lower(t)

Next == \E t \in Ids : Step(t) \/ (t # Main /\ Kill(t))

Spec == Init /\ [][Next]_vars

\* Threads and processes are scheduled.  No mutex need be fair: whoever is
\* overtaken gets it when the others have made their iterations.
FairSpec == Spec /\ \A t \in UNION {DOMAIN Code[p] : p \in DOMAIN Code} : WF_vars(t \in Ids /\ Step(t))

-------------------------------------------------------------------------------

\* No increment is lost or made twice, whoever is killed and wherever: the
\* counter is the number of stores the threads or processes have made.
CountsExactly ==
  program \in {"counter", "mutex_shared"} =>
    value = Cardinality(UNION {{t} \X Made(t, "store") : t \in Others})

\* semaphore.c: the reader never consumes what the writer has not produced.
\* livelock.c: the two never work at once; each raises its flag before it looks.
NoneTooEarly ==
  /\ program = "semaphore" =>
       Cardinality(Made(2, "consume")) <= Cardinality(Made(1, "produce"))
  /\ program = "livelock" => ~(Calls(1, "work") /\ Calls(2, "work"))

\* mutex_death.c: the parent repairs the value exactly if the child ended with the
\* mutex in its hands, whether it came to its end or was killed, and wherever;
\* what it leaves behind is a mutex that can be locked.
DeathIsNoticed ==
  program = "mutex_death" /\ Ended(Main) =>
    /\ value = IF Made(1, "lock") # {} THEN 99 ELSE 0
    /\ owner[1] = Nobody

\* Whoever waits for a mutex of deadlock.c holds the one the other waits for.
Circular ==
  \A t \in Others : Calls(t, "lock") /\ owner[On(t)] \in Others \ {t}

\* Every program but livelock.c ends, with two exceptions.  mutex_shared.c does
\* not if a process was killed while it held the mutex, which is not robust; and
\* deadlock.c does not if its threads each hold one mutex and want the other.
EndsUnlessBlocked ==
  \/ program = "livelock"
  \/ <>Ended(Main)
  \/ program = "mutex_shared" /\ <>[](owner[1] \in killed)
  \/ program = "deadlock" /\ <>[]Circular
===============================================================================
