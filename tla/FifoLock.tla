------------------------------- MODULE FifoLock -------------------------------
(***************************************************************************)
(* A first-come first-served lock: a thread joins the queue in one atomic  *)
(* step, only the thread at the head may own the lock, and it leaves the   *)
(* queue when it gives the lock up.                                        *)
(***************************************************************************)
EXTENDS Sequences

CONSTANT Threads

VARIABLES
  queue,    \* the threads that asked for the lock, oldest first
  owned     \* whether the thread at the head has the lock

vars == <<queue, owned>>

Init == queue = <<>> /\ owned = FALSE

Arrive(t) ==
  /\ \A k \in DOMAIN queue : queue[k] # t
  /\ queue' = Append(queue, t)
  /\ UNCHANGED owned

Enter ==
  /\ queue # <<>> /\ ~owned
  /\ owned' = TRUE
  /\ UNCHANGED queue

Leave ==
  /\ owned
  /\ queue' = Tail(queue)
  /\ owned' = FALSE

Next == Enter \/ Leave \/ \E t \in Threads : Arrive(t)

Spec == Init /\ [][Next]_vars
===============================================================================
