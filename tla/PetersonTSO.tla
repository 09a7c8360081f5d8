------------------------------ MODULE PetersonTSO ------------------------------
(***************************************************************************)
(* peterson.c on the store buffers of x86.  An atomic_store is an exchange,*)
(* which waits until the processor's buffer is empty; shared_counter is a  *)
(* plain int, so what a thread stores inside the critical section may      *)
(* still be on its way when the other thread looks.  The comment at the    *)
(* head of peterson.c asks what happens with volatile in place of atomic:  *)
(* the mutant of SetFlag is that program.                                  *)
(***************************************************************************)
EXTENDS TSO

CONSTANT Iterations    \* the iterations of thread_func's loop: 100

VARIABLES pc, reg, iter, mpc, started, joined    \* see LockClient

local == <<pc, reg, iter, mpc, started, joined>>

Client == INSTANCE LockClient WITH NumThreads <- 2, shared_counter <- mem["counter"]

Threads == {0, 1}
Other(t) == 1 - t
Flag(t) == IF t = 0 THEN "flag0" ELSE "flag1"

\* The static initialisers of `mutex' and `shared_counter'.
MemoryInit ==
  /\ mem = [l \in {"flag0", "flag1", "turn", "counter"} |-> 0]
  /\ buffer = [t \in Threads |-> << >>]

\* The client before any thread is created.
OwnInit ==
  /\ pc = [t \in Threads |-> "none"] /\ reg = [t \in Threads |-> 0]
  /\ iter = [t \in Threads |-> 0]
  /\ mpc = "create" /\ started = 0 /\ joined = 0

\* Mutant: a volatile store, which may wait in the store buffer.
SetFlagVolatile(t) ==
  /\ Write(t, Flag(t), 1)
  /\ Client!LockStep(t, "lock", "set_turn")

SetFlag(t) ==
  /\ Exchange(t, Flag(t), 1)
  /\ Client!LockStep(t, "lock", "set_turn")

\* Mutant: the thread keeps the turn for itself.
KeepTurn(t) ==
  /\ Exchange(t, "turn", t)
  /\ Client!LockStep(t, "set_turn", "read_flag")

SetTurn(t) ==
  /\ Exchange(t, "turn", Other(t))
  /\ Client!LockStep(t, "set_turn", "read_flag")

\* Mutant: the turn is not looked at; a raised flag keeps the thread out.
ReadFlagOnly(t) ==
  /\ UNCHANGED memory
  /\ Client!LockStep(t, "read_flag",
                     IF Read(t, Flag(Other(t))) = 1 THEN "read_flag" ELSE "load")

\* The two operands of the spin condition.
ReadFlag(t) ==
  /\ UNCHANGED memory
  /\ Client!LockStep(t, "read_flag",
                     IF Read(t, Flag(Other(t))) = 1 THEN "read_turn" ELSE "load")

ReadTurn(t) ==
  /\ UNCHANGED memory
  /\ Client!LockStep(t, "read_turn", IF Read(t, "turn") = Other(t) THEN "read_flag" ELSE "load")

\* shared_counter++
Load(t) ==
  /\ Client!Goto(t, "load", "store")
  /\ reg' = [reg EXCEPT ![t] = Read(t, "counter")]
  /\ UNCHANGED <<memory, iter, mpc, started, joined>>

Store(t) ==
  /\ Client!Goto(t, "store", "unlock")
  /\ Write(t, "counter", reg[t] + 1)
  /\ UNCHANGED <<reg, iter, mpc, started, joined>>

\* Mutant: peterson_unlock clears the other thread's flag.
UnlockOther(t) == Exchange(t, Flag(Other(t)), 0) /\ Client!EndIteration(t)

\* peterson_unlock
Unlock(t) == Exchange(t, Flag(t), 0) /\ Client!EndIteration(t)

Thread(t) ==
  SetFlag(t) \/ SetTurn(t) \/ ReadFlag(t) \/ ReadTurn(t) \/ Load(t) \/ Store(t) \/ Unlock(t)

Main == UNCHANGED memory /\ Client!MainStep

MemoryStep(t) == Flush(t) /\ UNCHANGED local

Step == Main \/ \E t \in Threads : Thread(t) \/ MemoryStep(t)

-------------------------------------------------------------------------------

\* The value of the last store to shared_counter, in memory or on its way.
Latest ==
  IF \E t \in Threads : Pending(t, "counter") # {}
  THEN Read(CHOOSE t \in Threads : Pending(t, "counter") # {}, "counter")
  ELSE mem["counter"]

\* Store buffers make no difference to the program as it is: it implements
\* peterson.c with sequentially consistent accesses to everything.
Sc == INSTANCE Peterson WITH
  NumThreads     <- 2,
  shared_counter <- Latest,
  flag           <- [t \in Threads |-> mem[Flag(t)]],
  turn           <- mem["turn"]
===============================================================================
