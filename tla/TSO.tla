---------------------------------- MODULE TSO ----------------------------------
(***************************************************************************)
(* The memory of an x86 machine as the course's programs meet it.  A plain *)
(* or volatile store waits in the store buffer of its processor and        *)
(* reaches memory later, in order; a load takes the processor's own latest *)
(* buffered store, else memory.  A sequentially consistent store is an     *)
(* xchg, which reaches memory at once and only when the buffer is empty.   *)
(***************************************************************************)
EXTENDS Sequences, Naturals

VARIABLES
  mem,      \* the value of every location in memory
  buffer    \* for every processor, its stores that memory has yet to see

memory == <<mem, buffer>>

MemoryTypeOK(procs, locs, values) ==
  /\ mem \in [locs -> values]
  /\ buffer \in [procs -> Seq([loc : locs, val : values])]

Pending(p, x) == {k \in DOMAIN buffer[p] : buffer[p][k].loc = x}

Read(p, x) ==
  IF Pending(p, x) = {} THEN mem[x]
  ELSE buffer[p][CHOOSE k \in Pending(p, x) : \A j \in Pending(p, x) : j <= k].val

Write(p, x, v) ==
  /\ buffer' = [buffer EXCEPT ![p] = Append(@, [loc |-> x, val |-> v])]
  /\ UNCHANGED mem

Exchange(p, x, v) ==
  /\ buffer[p] = << >>
  /\ mem' = [mem EXCEPT ![x] = v]
  /\ UNCHANGED buffer

\* The oldest store of processor p reaches memory.
Flush(p) ==
  /\ buffer[p] # << >>
  /\ mem' = [mem EXCEPT ![Head(buffer[p]).loc] = Head(buffer[p]).val]
  /\ buffer' = [buffer EXCEPT ![p] = Tail(@)]
===============================================================================
