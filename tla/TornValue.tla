------------------------------- MODULE TornValue -------------------------------
(***************************************************************************)
(* cpu_atomic.c and cpu_non_atomic.c: one thread stores two 64-bit values  *)
(* in turn, another reads and judges what it has read.  In cpu_non_atomic.c*)
(* the value lies across two cache lines, and its halves come to memory,   *)
(* and are read, one by one.                                               *)
(***************************************************************************)
EXTENDS TSO

CONSTANTS
  Parts,    \* the locations of the value: one, or one for each cache line
  Depth     \* bound: the stores that wait in the writer's buffer

VARIABLES
  next,     \* the value the writer stores next: "a" or "b"
  left,     \* the parts of it that the writer has yet to store
  got,      \* the parts the reader has read
  mixed,    \* memory has held parts of two stores since the reader began
  v,        \* the last value the reader has judged
  torn      \* whether it said "Possibly torn value detected!"

local == <<next, left, got, mixed, v, torn>>

Threads == {"writer", "reader"}
Whole(x) == [l \in Parts |-> x]

MemoryInit ==
  /\ mem = Whole("0")
  /\ buffer = [t \in Threads |-> << >>]

OwnInit ==
  /\ next = "a" /\ left = Parts
  /\ got = << >> /\ mixed = FALSE /\ v = Whole("a") /\ torn = FALSE

Mixed(m) == \E l, k \in Parts : m[l] # m[k]

-------------------------------------------------------------------------------

\* shared_data.value = a and = b, a part at a time
StorePart ==
  /\ Len(buffer["writer"]) < Depth
  /\ \E l \in left :
       /\ Write("writer", l, next)
       /\ left' = IF left = {l} THEN Parts ELSE left \ {l}
  /\ next' = IF left' # Parts THEN next ELSE IF next = "a" THEN "b" ELSE "a"
  /\ UNCHANGED <<got, mixed, v, torn>>

\* int64_t v = shared_data.value
LoadPart ==
  \E l \in Parts \ DOMAIN got :
    /\ got' = [k \in DOMAIN got \cup {l} |-> IF k = l THEN Read("reader", l) ELSE got[k]]
    /\ mixed' = IF DOMAIN got = {} THEN Mixed(mem) ELSE mixed
    /\ UNCHANGED <<memory, next, left, v, torn>>

\* Only cpu_non_atomic.c says anything of what it has read.
Judge ==
  /\ DOMAIN got = Parts
  /\ v' = got /\ torn' = (got \notin {Whole("a"), Whole("b")})
  /\ got' = << >>
  /\ UNCHANGED <<memory, next, left, mixed>>

MemoryStep ==
  /\ Flush("writer")
  /\ mixed' = (mixed \/ Mixed(mem'))
  /\ UNCHANGED <<next, left, got, v, torn>>

Step == StorePart \/ LoadPart \/ Judge \/ MemoryStep

-------------------------------------------------------------------------------

\* A value reported as torn is one, made of parts of two stores between which the
\* reader looked; or it is the 0 from before the writer's first store.
ReportIsGenuine == torn /\ DOMAIN got = {} => mixed \/ v = Whole("0")
===============================================================================
