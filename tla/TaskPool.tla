------------------------------- MODULE TaskPool -------------------------------
(***************************************************************************)
(* What a fixed pool of workers promises its client, with no lock, ring    *)
(* buffer or condition variable: tasks are accepted in submission order    *)
(* while fewer than Capacity are pending, are turned away otherwise, leave *)
(* the queue first-in first-out, run exactly once, and the pool is down    *)
(* only when nothing is pending or running.  ThreadPool implements it.     *)
(***************************************************************************)
EXTENDS Naturals, Sequences

CONSTANTS
  Tasks,      \* the task numbers 0 .. n, in the order the client submits them
  Workers,    \* the workers of the pool
  Capacity,   \* how many tasks may be pending
  NoTask      \* what an idle worker runs

VARIABLES
  pending,    \* accepted tasks, oldest first
  running,    \* the task of each worker
  finished,   \* tasks that ran to their end
  rejected,   \* tasks turned away
  phase       \* "open", "closing" or "down"

vars == <<pending, running, finished, rejected, phase>>

Init ==
  /\ pending = <<>>
  /\ running = [w \in Workers |-> NoTask]
  /\ finished = {}
  /\ rejected = {}
  /\ phase = "open"

Pending == {pending[k] : k \in DOMAIN pending}
Running == {running[w] : w \in {v \in Workers : running[v] # NoTask}}

\* The tasks the client has already handed over.
Known == finished \cup rejected \cup Pending \cup Running

\* The client submits in order, each task once.
IsNext(t) == \A u \in Tasks : u \in Known <=> u < t

Accept(t) ==
  /\ phase = "open"
  /\ IsNext(t)
  /\ Len(pending) < Capacity
  /\ pending' = Append(pending, t)
  /\ UNCHANGED <<running, finished, rejected, phase>>

Reject(t) ==
  /\ phase = "open"
  /\ IsNext(t)
  /\ Len(pending) = Capacity
  /\ rejected' = rejected \cup {t}
  /\ UNCHANGED <<pending, running, finished, phase>>

Start(w) ==
  /\ running[w] = NoTask
  /\ pending # <<>>
  /\ running' = [running EXCEPT ![w] = Head(pending)]
  /\ pending' = Tail(pending)
  /\ UNCHANGED <<finished, rejected, phase>>

Finish(w) ==
  /\ running[w] # NoTask
  /\ finished' = finished \cup {running[w]}
  /\ running' = [running EXCEPT ![w] = NoTask]
  /\ UNCHANGED <<pending, rejected, phase>>

Close ==
  /\ phase = "open"
  /\ phase' = "closing"
  /\ UNCHANGED <<pending, running, finished, rejected>>

Down ==
  /\ phase = "closing"
  /\ pending = <<>>
  /\ \A w \in Workers : running[w] = NoTask
  /\ phase' = "down"
  /\ UNCHANGED <<pending, running, finished, rejected>>

Next ==
  \/ \E t \in Tasks : Accept(t) \/ Reject(t)
  \/ \E w \in Workers : Start(w) \/ Finish(w)
  \/ Close
  \/ Down

Spec == Init /\ [][Next]_vars

-------------------------------------------------------------------------------
(* A task is in one place only.                                            *)

TypeOK ==
  /\ pending \in Seq(Tasks)
  /\ running \in [Workers -> Tasks \cup {NoTask}]
  /\ finished \in SUBSET Tasks
  /\ rejected \in SUBSET Tasks

\* No task is in two places, or twice in one: the pending tasks are distinct,
\* so are the running ones, and pending, running, finished and rejected tasks
\* are different tasks.
OnePlace ==
  /\ \A j, k \in DOMAIN pending : pending[j] = pending[k] => j = k
  /\ \A v, w \in Workers : running[v] = running[w] /\ running[v] # NoTask => v = w
  /\ Pending \cap Running = {}
  /\ Pending \cap (finished \cup rejected) = {}
  /\ Running \cap (finished \cup rejected) = {}
  /\ finished \cap rejected = {}
===============================================================================
