---------------------------- MODULE TicketSpinlock ----------------------------
(***************************************************************************)
(* The ticket lock of smart_spinlock.c: spinlock_lock draws a ticket and   *)
(* spins until it is served, spinlock_unlock serves the next ticket.  Both *)
(* counters are atomic_int and wrap around; TicketMod stands for 2^32.     *)
(***************************************************************************)
EXTENDS LockClient, Sequences

CONSTANT TicketMod    \* the number of different tickets

ASSUME TicketAssumption == TicketMod \in Nat /\ NumThreads < TicketMod

Tickets == 0 .. TicketMod - 1

VARIABLES
  next_ticket,    \* lock->next_ticket
  now_serving,    \* lock->now_serving
  ticket          \* each thread's local `ticket'

lock == <<next_ticket, now_serving, ticket>>
vars == <<client, lock>>

TypeOK ==
  /\ ClientTypeOK({"spin"})
  /\ next_ticket \in Tickets
  /\ now_serving \in Tickets
  /\ ticket \in [Threads -> Tickets]

\* spinlock_init
Init ==
  /\ ClientInit
  /\ next_ticket = 0
  /\ now_serving = 0
  /\ ticket = [t \in Threads |-> 0]

\* atomic_fetch_add on an atomic_int
Succ(n) == (n + 1) % TicketMod

\* Mutant: `next_ticket++' on a plain int, whose increment another thread's
\* store may overwrite.
DrawTicketPlain(t) ==
  /\ LockStep(t, "lock", "spin")
  /\ ticket' = [ticket EXCEPT ![t] = next_ticket]
  /\ next_ticket' \in {next_ticket, Succ(next_ticket)}
  /\ UNCHANGED now_serving

DrawTicket(t) ==
  /\ LockStep(t, "lock", "spin")
  /\ ticket' = [ticket EXCEPT ![t] = next_ticket]
  /\ next_ticket' = Succ(next_ticket)
  /\ UNCHANGED now_serving

\* The load of now_serving in the condition of the spin loop.
Spin(t) ==
  /\ LockStep(t, "spin", IF now_serving = ticket[t] THEN "load" ELSE "spin")
  /\ UNCHANGED lock

\* Mutant: now_serving jumps to the latest ticket, as if nobody waited.
UnlockToLatest(t) ==
  /\ EndIteration(t)
  /\ now_serving' = next_ticket
  /\ UNCHANGED <<next_ticket, ticket>>

\* spinlock_unlock
Unlock(t) ==
  /\ EndIteration(t)
  /\ now_serving' = Succ(now_serving)
  /\ UNCHANGED <<next_ticket, ticket>>

ClientStep(t) == (Load(t) \/ Store(t)) /\ UNCHANGED lock

Thread(t) == DrawTicket(t) \/ Spin(t) \/ ClientStep(t) \/ Unlock(t)

Main == MainStep /\ UNCHANGED lock

Terminated == mpc = "done" /\ UNCHANGED vars

Next == Main \/ (\E t \in Threads : Thread(t)) \/ Terminated

\* Every thread and main are scheduled; nothing is owed to a particular one.
Fairness == WF_vars(Main) /\ \A t \in Threads : WF_vars(Thread(t))

Spec == Init /\ [][Next]_vars

FairSpec == Spec /\ Fairness

-------------------------------------------------------------------------------
(* First come, first served                                                *)

Holding(t) == pc[t] \in {"spin", "load", "store", "unlock"}

\* How many tickets are served from ticket s on before ticket n comes up.
Distance(s, n) == IF n >= s THEN n - s ELSE n + TicketMod - s

Ahead(n) == Distance(now_serving, n)

\* The threads that hold a ticket, in the order in which they will be served.
Line ==
  [k \in 1 .. Ahead(next_ticket) |->
     CHOOSE t \in Threads : Holding(t) /\ Ahead(ticket[t]) = k - 1]

Fifo == INSTANCE FifoLock WITH
  queue <- Line,
  owned <- \E t \in Threads : InCriticalSection(t)

\* Threads enter the critical section in the order of their fetch_add, also
\* when the counters wrap around; no thread overtakes another.
ImplementsFifoLock == Fifo!Spec

-------------------------------------------------------------------------------
(* Why the lock excludes                                                   *)

\* The tickets between now_serving and next_ticket are each held by exactly one
\* thread, and every ticket held is one of these.
TicketInv ==
  /\ \A t \in Threads : Holding(t) => Ahead(ticket[t]) < Ahead(next_ticket)
  /\ \A t, u \in Threads :
       Holding(t) /\ Holding(u) /\ ticket[t] = ticket[u] => t = u
  /\ \A n \in 0 .. TicketMod - 1 : n < Ahead(next_ticket) =>
       \E t \in Threads : Holding(t) /\ Ahead(ticket[t]) = n

\* Only the ticket being served is inside.
ServedInv == \A t \in Threads : InCriticalSection(t) => ticket[t] = now_serving

IInv == TypeOK /\ ClientInv /\ TicketInv /\ ServedInv
===============================================================================
