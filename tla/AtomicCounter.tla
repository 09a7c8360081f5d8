----------------------------- MODULE AtomicCounter -----------------------------
(***************************************************************************)
(* What every locked counter program of the course promises: Threads       *)
(* increment one counter Iterations times each, no increment is lost, and  *)
(* the value reported at the end is the value after the last increment.    *)
(***************************************************************************)
EXTENDS Naturals

CONSTANTS
  Threads,      \* the incrementing threads
  Iterations    \* how often each of them increments

VARIABLES
  counter,      \* the value of the counter
  left,         \* how many increments each thread still owes
  reported      \* whether the final value has been reported

vars == <<counter, left, reported>>

Init ==
  /\ counter = 0
  /\ left = [t \in Threads |-> Iterations]
  /\ reported = FALSE

Increment(t) ==
  /\ left[t] > 0
  /\ counter' = counter + 1
  /\ left' = [left EXCEPT ![t] = @ - 1]
  /\ UNCHANGED reported

Report ==
  /\ \A t \in Threads : left[t] = 0
  /\ reported' = TRUE
  /\ UNCHANGED <<counter, left>>

Next == Report \/ \E t \in Threads : Increment(t)

Spec == Init /\ [][Next]_vars
===============================================================================
