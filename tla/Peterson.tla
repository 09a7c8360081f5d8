------------------------------- MODULE Peterson -------------------------------
(***************************************************************************)
(* The two-thread lock of peterson.c on sequentially consistent memory:    *)
(* each thread raises its flag, gives the turn away and spins while the    *)
(* other's flag is up and it is the other's turn.  Every atomic_load and   *)
(* atomic_store of the atomic_int fields is one step.  PetersonTSO runs    *)
(* the same program, with NumThreads = 2, on x86.                          *)
(***************************************************************************)
EXTENDS LockClient

VARIABLES
  flag,    \* mutex->flag
  turn     \* mutex->turn

lock == <<flag, turn>>
vars == <<client, lock>>

LockPc == {"set_turn", "read_flag", "read_turn"}

\* The static initialiser of `mutex'.
Init ==
  /\ ClientInit
  /\ flag = [t \in Threads |-> 0]
  /\ turn = 0

Other(t) == 1 - t

-------------------------------------------------------------------------------
(* peterson_lock                                                           *)

SetFlag(t) ==
  /\ LockStep(t, "lock", "set_turn")
  /\ flag' = [flag EXCEPT ![t] = 1]
  /\ UNCHANGED turn

SetTurn(t) ==
  /\ LockStep(t, "set_turn", "read_flag")
  /\ turn' = Other(t)
  /\ UNCHANGED flag

\* The left operand of the spin condition; if it is 0 the loop ends.
ReadFlag(t) ==
  /\ LockStep(t, "read_flag", IF flag[Other(t)] = 1 THEN "read_turn" ELSE "load")
  /\ UNCHANGED lock

\* The right operand; if it fails the loop ends, else it starts again.
ReadTurn(t) ==
  /\ LockStep(t, "read_turn", IF turn = Other(t) THEN "read_flag" ELSE "load")
  /\ UNCHANGED lock

-------------------------------------------------------------------------------

\* peterson_unlock
Unlock(t) ==
  /\ EndIteration(t)
  /\ flag' = [flag EXCEPT ![t] = 0]
  /\ UNCHANGED turn

ClientStep(t) == (Load(t) \/ Store(t)) /\ UNCHANGED lock

Thread(t) ==
  \/ SetFlag(t) \/ SetTurn(t) \/ ReadFlag(t) \/ ReadTurn(t)
  \/ ClientStep(t) \/ Unlock(t)

Main == MainStep /\ UNCHANGED lock

Terminated == mpc = "done" /\ UNCHANGED vars

Next == Main \/ (\E t \in Threads : Thread(t)) \/ Terminated

-------------------------------------------------------------------------------
(* Fairness of the lock itself                                             *)

Spinning(t) == pc[t] \in {"read_flag", "read_turn"}

\* The turn the other thread gives away when it comes back stays with the
\* waiting thread until that is inside, and the other does not pass it.
WaiterKeepsTurn ==
  \A t \in Threads :
    Spinning(t) /\ Spinning(Other(t)) /\ turn = t /\ ~InCriticalSection(t)'
      => turn' = t /\ ~InCriticalSection(Other(t))'
===============================================================================
