--------------------------- MODULE TasSpinlockOrders ---------------------------
(***************************************************************************)
(* stupid_spinlock.c with explicit memory orders: the test-and-set is an   *)
(* acquire, the clear a release.  A test-and-set is a read-modify-write    *)
(* and reads the last value of the flag in every memory order.             *)
(***************************************************************************)
EXTENDS WeakCounter

VARIABLES
  flag,        \* lock->flag
  flag_view    \* what a thread learns that reads the flag as clear

lock == <<flag, flag_view>>
vars == <<client, weak, lock>>

TypeOK ==
  /\ ClientTypeOK({})
  /\ WeakTypeOK
  /\ flag \in BOOLEAN
  /\ flag_view \in 1 .. Latest

\* spinlock_init, before the threads are created
Init ==
  /\ ClientInit
  /\ WeakInit
  /\ flag = FALSE
  /\ flag_view = 1

\* atomic_flag_test_and_set_explicit(..., memory_order_acquire)
TestAndSet(t) ==
  /\ LockStep(t, "lock", IF flag THEN "lock" ELSE "load")
  /\ flag' = TRUE
  /\ Acquire(t, IF flag THEN 1 ELSE flag_view)
  /\ UNCHANGED <<history, flag_view>>

\* Mutant: memory_order_relaxed in spinlock_unlock.
ClearRelaxed(t) ==
  /\ EndIteration(t)
  /\ flag' = FALSE
  /\ flag_view' = 1
  /\ UNCHANGED weak

\* atomic_flag_clear_explicit(..., memory_order_release)
Clear(t) ==
  /\ EndIteration(t)
  /\ flag' = FALSE
  /\ flag_view' = seen[t]
  /\ UNCHANGED weak

ClientStep(t) == (WeakLoad(t) \/ WeakStore(t)) /\ UNCHANGED lock

Thread(t) == TestAndSet(t) \/ ClientStep(t) \/ Clear(t)

Main == MainStep /\ UNCHANGED <<weak, lock>>

Step == Main \/ \E t \in Threads : Thread(t)

-------------------------------------------------------------------------------

\* With acquire and release the program behaves as if every access were
\* sequentially consistent: it implements the spinlock of lecture-02.
Sc == INSTANCE TasSpinlock
===============================================================================
