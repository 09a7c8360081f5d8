---------------------------- MODULE StoreBuffering ----------------------------
(***************************************************************************)
(* The reordering experiment of the course: two threads each store to one  *)
(* location and load the other, main() repeats this until both loads have  *)
(* returned 0.  With plain ints (out_of_order.c of lecture-02 and          *)
(* processor_reordering.c of lecture-05) a load may overtake the store     *)
(* before it; with memory_order_seq_cst (lecture-06) it may not.           *)
(***************************************************************************)
EXTENDS TSO

CONSTANTS
  SeqCst,    \* whether x and y are accessed with memory_order_seq_cst
  Rounds     \* the iterations of main's loop: 1000000

Threads == {1, 2}
Own == <<"x", "y">>          \* the location each thread stores to
Others == <<"y", "x">>       \* the location it loads
Result == <<"r1", "r2">>     \* where it leaves what it has loaded

VARIABLES
  pc,         \* where each thread is; "none" before pthread_create
  mpc,        \* where main is
  round,      \* main's i
  detected,   \* main's `detected'
  overtook    \* whether the thread's load ran before its store was in memory

vars == <<memory, pc, mpc, round, detected, overtook>>

Locations == {"x", "y", "r1", "r2"}

TypeOK ==
  /\ MemoryTypeOK(Threads, Locations, {0, 1})
  /\ pc \in [Threads -> {"none", "store", "load", "done"}]
  /\ mpc \in {"reset", "create1", "create2", "join1", "join2", "check", "report", "done"}
  /\ round \in 0 .. Rounds
  /\ detected \in BOOLEAN
  /\ overtook \in [Threads -> BOOLEAN]

MemoryInit ==
  /\ mem = [l \in Locations |-> 0]
  /\ buffer = [t \in Threads |-> << >>]

OwnInit ==
  /\ pc = [t \in Threads |-> "none"]
  /\ mpc = "reset"
  /\ round = 0
  /\ detected = FALSE
  /\ overtook = [t \in Threads |-> FALSE]

-------------------------------------------------------------------------------
(* thread1 and thread2                                                     *)

\* Mutant: a relaxed store, which may wait in the store buffer.
StoreRelaxed(t) ==
  /\ pc[t] = "store"
  /\ pc' = [pc EXCEPT ![t] = "load"]
  /\ Write(t, Own[t], 1)
  /\ UNCHANGED <<mpc, round, detected, overtook>>

\* x = 1, or atomic_store_explicit(&x, 1, memory_order_seq_cst)
StoreOwn(t) ==
  /\ pc[t] = "store"
  /\ pc' = [pc EXCEPT ![t] = "load"]
  /\ IF SeqCst THEN Exchange(t, Own[t], 1) ELSE Write(t, Own[t], 1)
  /\ UNCHANGED <<mpc, round, detected, overtook>>

\* r1 = y, or r1 = atomic_load_explicit(&y, memory_order_seq_cst)
LoadOther(t) ==
  /\ pc[t] = "load"
  /\ pc' = [pc EXCEPT ![t] = "done"]
  /\ Write(t, Result[t], Read(t, Others[t]))
  /\ overtook' = [overtook EXCEPT ![t] = Pending(t, Own[t]) # {}]
  /\ UNCHANGED <<mpc, round, detected>>

-------------------------------------------------------------------------------
(* main                                                                    *)

MainGoto(from, to) == mpc = from /\ mpc' = to

\* x = y = r1 = r2 = 0
Reset ==
  /\ MainGoto("reset", "create1")
  /\ mem' = [l \in Locations |-> 0]
  /\ pc' = [t \in Threads |-> "none"]
  /\ overtook' = [t \in Threads |-> FALSE]
  /\ UNCHANGED <<buffer, round, detected>>

Create(t) ==
  /\ IF t = 1 THEN MainGoto("create1", "create2") ELSE MainGoto("create2", "join1")
  /\ pc' = [pc EXCEPT ![t] = "store"]
  /\ UNCHANGED <<memory, round, detected, overtook>>

\* Mutant: main joins thread1 only.
JoinFirst(t) ==
  /\ IF t = 1 THEN MainGoto("join1", "join2") ELSE MainGoto("join2", "check")
  /\ t = 1 => pc[t] = "done" /\ buffer[t] = << >>
  /\ UNCHANGED <<memory, pc, round, detected, overtook>>

\* pthread_join returns when the thread and its stores are done.
Join(t) ==
  /\ IF t = 1 THEN MainGoto("join1", "join2") ELSE MainGoto("join2", "check")
  /\ pc[t] = "done" /\ buffer[t] = << >>
  /\ UNCHANGED <<memory, pc, round, detected, overtook>>

BothZero == mem["r1"] = 0 /\ mem["r2"] = 0

\* if (r1 == 0 && r2 == 0), and the condition of the loop
Check ==
  /\ MainGoto("check", IF BothZero \/ round + 1 = Rounds THEN "report" ELSE "reset")
  /\ detected' = BothZero
  /\ round' = round + 1
  /\ UNCHANGED <<memory, pc, overtook>>

Report ==
  /\ MainGoto("report", "done")
  /\ UNCHANGED <<memory, pc, round, detected, overtook>>

Thread(t) == StoreOwn(t) \/ LoadOther(t)

Main == Reset \/ Check \/ Report \/ \E t \in Threads : Create(t) \/ Join(t)

MemoryStep(t) == Flush(t) /\ UNCHANGED <<pc, mpc, round, detected, overtook>>

Next == Main \/ \E t \in Threads : Thread(t) \/ MemoryStep(t)
===============================================================================
