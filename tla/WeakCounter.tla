------------------------------ MODULE WeakCounter ------------------------------
(***************************************************************************)
(* The client of the spinlocks of lecture-06/memory_orders under the       *)
(* memory model of C11: shared_counter is a plain int, so a thread may     *)
(* read any value that no store it knows of has overwritten.  A thread     *)
(* learns of other threads' stores only by an acquire operation that reads *)
(* what a release operation wrote, by pthread_create and by pthread_join.  *)
(***************************************************************************)
EXTENDS LockClient, Sequences

VARIABLES
  history,    \* the values stored in shared_counter, in modification order
  seen        \* for each thread, the latest of them that it knows of

weak == <<history, seen>>

Latest == Len(history)

WeakTypeOK ==
  /\ history \in Seq(Nat) /\ history # << >>
  /\ seen \in [Threads -> 1 .. Latest]

WeakInit ==
  /\ history = <<0>>
  /\ seen = [t \in Threads |-> 1]

Later(v, w) == IF v < w THEN w ELSE v

\* Thread t learns what the writer of a message with the given view knew.
Acquire(t, view) == seen' = [seen EXCEPT ![t] = Later(@, view)]

\* The load of `shared_counter++'.
WeakLoad(t) ==
  /\ Goto(t, "load", "store")
  /\ \E v \in seen[t] .. Latest : reg' = [reg EXCEPT ![t] = history[v]]
  /\ UNCHANGED <<shared_counter, iter, mpc, started, joined, weak>>

\* The store of `shared_counter++'.
WeakStore(t) ==
  /\ Store(t)
  /\ history' = Append(history, reg[t] + 1)
  /\ seen' = [seen EXCEPT ![t] = Latest + 1]

\* No data race: a thread that touches shared_counter knows of every store
\* other threads have made, so that its access happens after them.
RaceFree ==
  \A t \in Threads : pc[t] \in {"load", "store"} => seen[t] = Latest
===============================================================================
