------------------------- MODULE TicketSpinlockOrders -------------------------
(***************************************************************************)
(* smart_spinlock.c with explicit memory orders: tickets are drawn by a    *)
(* relaxed fetch_add, the spin loop reads now_serving with acquire and     *)
(* spinlock_unlock advances it by a release fetch_add.  The loads of the   *)
(* spin loop may return any value of now_serving that is not older than    *)
(* what the thread has read or written before; a fetch_add, being a        *)
(* read-modify-write, always acts on the last value.                       *)
(***************************************************************************)
EXTENDS WeakCounter

CONSTANT TicketMod    \* the number of different tickets

VARIABLES
  next_ticket,     \* lock->next_ticket
  serving,         \* for every value now_serving has had, what its writer knew
  serving_seen,    \* for each thread, the latest of them that it knows of
  ticket           \* each thread's local `ticket'

lock == <<next_ticket, serving, serving_seen, ticket>>
vars == <<client, weak, lock>>

\* The k-th value of now_serving is k - 1.
now_serving == Len(serving) - 1

TypeOK ==
  /\ ClientTypeOK({"spin"})
  /\ WeakTypeOK
  /\ next_ticket \in 0 .. TicketMod - 1
  /\ serving \in Seq(1 .. Latest) /\ serving # << >>
  /\ serving_seen \in [Threads -> DOMAIN serving]
  /\ ticket \in [Threads -> 0 .. TicketMod - 1]

\* spinlock_init, before the threads are created
Init ==
  /\ ClientInit
  /\ WeakInit
  /\ next_ticket = 0
  /\ serving = <<1>>
  /\ serving_seen = [t \in Threads |-> 1]
  /\ ticket = [t \in Threads |-> 0]

\* atomic_fetch_add_explicit(&lock->next_ticket, 1, memory_order_relaxed)
DrawTicket(t) ==
  /\ LockStep(t, "lock", "spin")
  /\ ticket' = [ticket EXCEPT ![t] = next_ticket]
  /\ next_ticket' = next_ticket + 1
  /\ UNCHANGED <<weak, serving, serving_seen>>

\* Mutant: the spin loop reads now_serving with memory_order_relaxed.
SpinRelaxed(t) ==
  \E k \in serving_seen[t] .. Len(serving) :
    /\ LockStep(t, "spin", IF k - 1 = ticket[t] THEN "load" ELSE "spin")
    /\ serving_seen' = [serving_seen EXCEPT ![t] = k]
    /\ UNCHANGED <<weak, next_ticket, serving, ticket>>

\* atomic_load_explicit(&lock->now_serving, memory_order_acquire)
Spin(t) ==
  \E k \in serving_seen[t] .. Len(serving) :
    /\ LockStep(t, "spin", IF k - 1 = ticket[t] THEN "load" ELSE "spin")
    /\ serving_seen' = [serving_seen EXCEPT ![t] = k]
    /\ Acquire(t, serving[k])
    /\ UNCHANGED <<history, next_ticket, serving, ticket>>

\* atomic_fetch_add_explicit(&lock->now_serving, 1, memory_order_release)
Unlock(t) ==
  /\ EndIteration(t)
  /\ serving' = Append(serving, Later(serving[Len(serving)], seen[t]))
  /\ serving_seen' = [serving_seen EXCEPT ![t] = Len(serving')]
  /\ UNCHANGED <<weak, next_ticket, ticket>>

ClientStep(t) == (WeakLoad(t) \/ WeakStore(t)) /\ UNCHANGED lock

Thread(t) == DrawTicket(t) \/ Spin(t) \/ ClientStep(t) \/ Unlock(t)

Main == MainStep /\ UNCHANGED <<weak, lock>>

Step == Main \/ \E t \in Threads : Thread(t)

-------------------------------------------------------------------------------

\* Relaxed tickets and an acquire-release now_serving are enough: the program
\* implements the sequentially consistent ticket lock of lecture-02.
Sc == INSTANCE TicketSpinlock
===============================================================================
