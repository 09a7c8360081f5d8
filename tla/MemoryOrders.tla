------------------------------ MODULE MemoryOrders ------------------------------
(***************************************************************************)
(* The two spinlocks of lecture-06/memory_orders, which name the memory    *)
(* order of every access.  A behaviour is a run of the program with one of *)
(* them; what the other lock owns stays as it is.                          *)
(***************************************************************************)
EXTENDS WeakCounter

\* The number of different tickets.  A thread that spins on an old value of
\* now_serving must not find its own ticket there, so they may not wrap around.
CONSTANT OrdersMod

ASSUME NoWrapAssumption == OrdersMod \in Nat /\ NumThreads * Iterations < OrdersMod

VARIABLES
  program,                                        \* which of the locks is used
  flag, flag_view,                                \* see TasSpinlockOrders
  upcoming, serving, serving_seen, own_ticket     \* see TicketSpinlockOrders

tasLock == <<flag, flag_view>>
ticketLock == <<upcoming, serving, serving_seen, own_ticket>>
allVars == <<program, client, weak, tasLock, ticketLock>>

Tas    == INSTANCE TasSpinlockOrders
Ticket == INSTANCE TicketSpinlockOrders WITH
  TicketMod <- OrdersMod, next_ticket <- upcoming, ticket <- own_ticket

OrdersInit ==
  /\ program \in {"stupid_spinlock", "smart_spinlock"}
  /\ Tas!Init /\ Ticket!Init

TasStep ==
  program = "stupid_spinlock" /\ Tas!Step /\ UNCHANGED <<program, ticketLock>>

TicketStep ==
  program = "smart_spinlock" /\ Ticket!Step /\ UNCHANGED <<program, tasLock>>

OrdersTerminated == mpc = "done" /\ UNCHANGED allVars

OrdersNext == TasStep \/ TicketStep \/ OrdersTerminated

OrdersSpec == OrdersInit /\ [][OrdersNext]_allVars

-------------------------------------------------------------------------------

\* Acquire and release suffice to keep `shared_counter++' free of data races:
\* whoever is inside knows of every store that was made inside before.  (RaceFree
\* is stated in WeakCounter.)

\* With these memory orders the locks behave as if every access were
\* sequentially consistent: the programs implement those of lecture-02, where
\* the tickets are drawn and served in one order for all threads.
ImplementsScSpinlock ==
  /\ program = "stupid_spinlock" => Tas!Sc!Init
  /\ program = "smart_spinlock" => Ticket!Sc!Init
  /\ [][/\ program = "stupid_spinlock" => [Tas!Sc!Next]_(Tas!Sc!vars)
        /\ program = "smart_spinlock" => [Ticket!Sc!Next]_(Ticket!Sc!vars)]_allVars
===============================================================================
