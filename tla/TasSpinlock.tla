------------------------------ MODULE TasSpinlock ------------------------------
(***************************************************************************)
(* The test-and-set lock of stupid_spinlock.c: one atomic_flag that        *)
(* spinlock_lock sets until it finds it clear.                             *)
(***************************************************************************)
EXTENDS LockClient

VARIABLE flag    \* lock->flag

vars == <<client, flag>>

TypeOK == ClientTypeOK({}) /\ flag \in BOOLEAN

\* spinlock_init
Init == ClientInit /\ flag = FALSE

\* atomic_flag_test_and_set: the loop goes on as long as the flag was set.
TestAndSet(t) ==
  /\ LockStep(t, "lock", IF flag THEN "lock" ELSE "load")
  /\ flag' = TRUE

\* spinlock_unlock
Clear(t) == EndIteration(t) /\ flag' = FALSE

ClientStep(t) == (Load(t) \/ Store(t)) /\ UNCHANGED flag

Thread(t) == TestAndSet(t) \/ ClientStep(t) \/ Clear(t)

Main == MainStep /\ UNCHANGED flag

Terminated == mpc = "done" /\ UNCHANGED vars

Next == Main \/ (\E t \in Threads : Thread(t)) \/ Terminated

Spec == Init /\ [][Next]_vars
===============================================================================
