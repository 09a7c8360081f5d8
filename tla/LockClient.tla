------------------------------ MODULE LockClient ------------------------------
(***************************************************************************)
(* The program around each lock of the course: main() starts the threads   *)
(* of thread_func, joins them and prints shared_counter; a thread repeats  *)
(* lock, shared_counter++, unlock.  `++' on a plain int is a load and a    *)
(* store.  How a thread gets from "lock" to "load", and from "unlock" on,  *)
(* is the business of the lock's module, which EXTENDS this one.           *)
(***************************************************************************)
EXTENDS Naturals

CONSTANTS
  NumThreads,   \* the threads main() starts: 4, or 2 for Peterson's lock
  Iterations    \* the iterations of thread_func's loop: 100 or 100000

ASSUME LockClientAssumption ==
  /\ NumThreads \in Nat \ {0}
  /\ Iterations \in Nat \ {0}

Threads == 0 .. NumThreads - 1

VARIABLES
  shared_counter,   \* the counter the lock protects
  pc,               \* where each thread is; "none" before pthread_create
  reg,              \* the value each thread has loaded from shared_counter
  iter,             \* each thread's loop counter i
  mpc,              \* where main is
  started,          \* how many threads main has started
  joined            \* how many threads main has joined

client == <<shared_counter, pc, reg, iter, mpc, started, joined>>

ClientTypeOK(lockPc) ==
  /\ shared_counter \in Nat
  /\ pc \in [Threads -> lockPc \cup {"none", "lock", "load", "store", "unlock", "done"}]
  /\ reg \in [Threads -> Nat]
  /\ iter \in [Threads -> 0 .. Iterations]
  /\ mpc \in {"create", "join", "print", "done"}
  /\ started \in 0 .. NumThreads
  /\ joined \in 0 .. NumThreads

ClientInit ==
  /\ shared_counter = 0
  /\ pc = [t \in Threads |-> "none"]
  /\ reg = [t \in Threads |-> 0]
  /\ iter = [t \in Threads |-> 0]
  /\ mpc = "create"
  /\ started = 0
  /\ joined = 0

Goto(t, from, to) == pc[t] = from /\ pc' = [pc EXCEPT ![t] = to]

-------------------------------------------------------------------------------
(* thread_func                                                             *)

Load(t) ==
  /\ Goto(t, "load", "store")
  /\ reg' = [reg EXCEPT ![t] = shared_counter]
  /\ UNCHANGED <<shared_counter, iter, mpc, started, joined>>

Store(t) ==
  /\ Goto(t, "store", "unlock")
  /\ shared_counter' = reg[t] + 1
  /\ UNCHANGED <<reg, iter, mpc, started, joined>>

\* The end of an iteration, in the step that unlocks: go round or return.
EndIteration(t) ==
  /\ Goto(t, "unlock", IF iter[t] + 1 < Iterations THEN "lock" ELSE "done")
  /\ iter' = [iter EXCEPT ![t] = @ + 1]
  /\ UNCHANGED <<shared_counter, reg, mpc, started, joined>>

\* A step of the lock's own code moves thread t and nothing else of the client.
LockStep(t, from, to) ==
  /\ Goto(t, from, to)
  /\ UNCHANGED <<shared_counter, reg, iter, mpc, started, joined>>

-------------------------------------------------------------------------------
(* main                                                                    *)

Create ==
  /\ mpc = "create"
  /\ pc' = [pc EXCEPT ![started] = "lock"]
  /\ started' = started + 1
  /\ mpc' = IF started' = NumThreads THEN "join" ELSE "create"
  /\ UNCHANGED <<shared_counter, reg, iter, joined>>

\* Mutant: main forgets to join the last thread.
JoinAllButOne ==
  /\ mpc = "join"
  /\ joined + 1 < NumThreads => pc[joined] = "done"
  /\ joined' = joined + 1
  /\ mpc' = IF joined' = NumThreads THEN "print" ELSE "join"
  /\ UNCHANGED <<shared_counter, pc, reg, iter, started>>

Join ==
  /\ mpc = "join"
  /\ pc[joined] = "done"
  /\ joined' = joined + 1
  /\ mpc' = IF joined' = NumThreads THEN "print" ELSE "join"
  /\ UNCHANGED <<shared_counter, pc, reg, iter, started>>

\* printf("Final counter value: ...") and the end of the program.
Report ==
  /\ mpc = "print"
  /\ mpc' = "done"
  /\ UNCHANGED <<shared_counter, pc, reg, iter, started, joined>>

MainStep == Create \/ Join \/ Report

-------------------------------------------------------------------------------
(* What a lock is for                                                      *)

InCriticalSection(t) == pc[t] \in {"load", "store", "unlock"}

\* No two threads are between spinlock_lock and spinlock_unlock at once.
MutualExclusion ==
  \A t, u \in Threads :
    InCriticalSection(t) /\ InCriticalSection(u) => t = u

\* No increment is lost and main reports the value after the last one: the
\* plain `++', protected by the lock, is an atomic increment.
Counter == INSTANCE AtomicCounter WITH
  counter  <- shared_counter,
  left     <- [t \in Threads |->
                Iterations - iter[t] - (IF pc[t] = "unlock" THEN 1 ELSE 0)],
  reported <- mpc = "done"

ImplementsAtomicCounter == Counter!Spec

\* Every thread gets the lock as often as it asks, and main comes to its end.
Terminates == <>(mpc = "done")

-------------------------------------------------------------------------------
(* Why a lock that excludes protects the counter                           *)

\* The value a thread is about to store is still the counter's successor: no
\* other thread has stored since it loaded.
LoadIsFresh == \A t \in Threads : pc[t] = "store" => reg[t] = shared_counter

\* A thread is done exactly when it has made all its iterations.
LoopInv == \A t \in Threads : iter[t] = Iterations <=> pc[t] = "done"

\* What main has created is running, what it has joined is done.
MainInv ==
  /\ \A t \in Threads : pc[t] = "none" <=> started <= t
  /\ \A t \in Threads : t < joined => pc[t] = "done"
  /\ mpc = "create" <=> started < NumThreads
  /\ mpc \in {"print", "done"} <=> joined = NumThreads

ClientInv == LoadIsFresh /\ LoopInv /\ MainInv
===============================================================================
