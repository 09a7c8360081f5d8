--------------------------- MODULE StoreBuffers_proofs ---------------------------
(***************************************************************************)
(* What holds of the programs on store buffers for every number of rounds  *)
(* and iterations.  First, peterson.c does nothing on x86 store buffers    *)
(* that it does not do on sequentially consistent memory.  Only the plain  *)
(* shared_counter can wait in a buffer, and only between the store and the *)
(* exchange that unlocks; the lock's own exclusion makes its owner the     *)
(* only one to have it there.  Second, what the experiments report.  Third, *)
(* the flags of shmem.c pass whole messages in turn.                       *)
(***************************************************************************)
EXTENDS StoreBuffers, SequenceTheorems, TLAPS

\* The program around the lock, for the counter of peterson.c.
Locked == INSTANCE LockClient WITH
  NumThreads <- 2, Iterations <- LockIterations, shared_counter <- Peterson!Latest,
  pc <- tpc, mpc <- main

-------------------------------------------------------------------------------
(* Peterson's mutex                                                        *)

Locations == {"flag0", "flag1", "turn", "counter"}
InsideLock == {"load", "store", "unlock"}
LockPlaces == {"none", "lock", "set_turn", "read_flag", "read_turn", "done"} \cup InsideLock

PetersonMemory ==
  /\ mem \in [Locations -> Nat]
  /\ buffer \in [Peterson!Threads -> Seq([loc : {"counter"}, val : Nat])]
  /\ tpc \in [Peterson!Threads -> LockPlaces] /\ reg \in [Peterson!Threads -> Nat]

\* main has created the threads below `started', in order.
StartInv ==
  /\ started \in 0 .. 2
  /\ main = "create" <=> started < 2
  /\ \A t \in Peterson!Threads : tpc[t] = "none" <=> started <= t

\* Only the counter is ever in a buffer, as the last that its thread did.
BufferInv ==
  \A t \in Peterson!Threads :
    \/ buffer[t] = << >>
    \/ /\ tpc[t] = "unlock"
       /\ buffer[t] = << [loc |-> "counter", val |-> reg[t] + 1] >>

\* Peterson's argument, for flags and a turn in memory.
LockInv ==
  /\ \A t \in Peterson!Threads :
       /\ mem[Peterson!Flag(t)] \in {0, 1}
       /\ mem[Peterson!Flag(t)] = 1 <=> tpc[t] \notin {"none", "lock", "done"}
       /\ tpc[t] \in InsideLock /\ tpc[Peterson!Other(t)] \in {"read_flag", "read_turn"}
           => mem["turn"] = t
  /\ ~(tpc[0] \in InsideLock /\ tpc[1] \in InsideLock)
  /\ mem["turn"] \in Peterson!Threads

PetersonInv == PetersonMemory /\ StartInv /\ BufferInv /\ LockInv

\* Each thread has one partner, and flags are not the counter.
LEMMA OtherThread ==
  \A t \in Peterson!Threads :
    /\ Peterson!Other(t) \in Peterson!Threads /\ Peterson!Other(t) # t
       /\ Peterson!Other(Peterson!Other(t)) = t
    /\ \A u \in Peterson!Threads : u = t \/ u = Peterson!Other(t)
    /\ Peterson!Flag(t) \in Locations \ {"turn", "counter"}
       /\ Peterson!Flag(Peterson!Other(t)) # Peterson!Flag(t)
  BY DEF Peterson!Threads, Peterson!Other, Peterson!Flag, Locations

\* A load with nothing of its own in the way reads memory.
LEMMA ReadMemory ==
  ASSUME NEW t \in Peterson!Threads, NEW l, buffer[t] = << >>
  PROVE  Peterson!Read(t, l) = mem[l] /\ Peterson!Pending(t, l) = {}
PROOF
<1>1. Peterson!Pending(t, l) = {}
  BY DEF Peterson!Pending
<1> QED
  BY <1>1 DEF Peterson!Read

\* With the counter in the buffer a load of the counter takes it from there, and
\* any other reads memory.
LEMMA ReadBuffer ==
  ASSUME NEW t \in Peterson!Threads, NEW n, buffer[t] = << [loc |-> "counter", val |-> n] >>
  PROVE  /\ Peterson!Read(t, "counter") = n /\ Peterson!Pending(t, "counter") = {1}
         /\ \A l : l # "counter" => Peterson!Read(t, l) = mem[l]
PROOF
<1>1. Peterson!Pending(t, "counter") = {1}
  BY DEF Peterson!Pending
<1>2. (CHOOSE k \in {1} : \A j \in {1} : j <= k) = 1
  OBVIOUS
<1>3. Peterson!Read(t, "counter") = n
  BY <1>1, <1>2 DEF Peterson!Read
<1>4. ASSUME NEW l, l # "counter"
      PROVE  Peterson!Read(t, l) = mem[l]
  <2>1. Peterson!Pending(t, l) = {}
    BY <1>4 DEF Peterson!Pending
  <2> QED
    BY <2>1 DEF Peterson!Read
<1> QED
  BY <1>1, <1>3, <1>4

\* While all buffers are empty the latest value of the counter is in memory.
LEMMA LatestInMemory ==
  ASSUME \A t \in Peterson!Threads : buffer[t] = << >>
  PROVE  Peterson!Latest = mem["counter"]
  BY ReadMemory DEF Peterson!Latest

\* While one thread has a store of it in its buffer, it is that.
LEMMA LatestInBuffer ==
  ASSUME NEW t \in Peterson!Threads, NEW n, buffer[t] = << [loc |-> "counter", val |-> n] >>,
         buffer[Peterson!Other(t)] = << >>
  PROVE  Peterson!Latest = n
PROOF
<1>1. Peterson!Pending(t, "counter") = {1} /\ Peterson!Read(t, "counter") = n
  BY ReadBuffer
<1>2. Peterson!Pending(Peterson!Other(t), "counter") = {}
  BY ReadMemory, OtherThread
<1>3. \A u \in Peterson!Threads : Peterson!Pending(u, "counter") # {} => u = t
  BY <1>2, OtherThread
<1>4. (CHOOSE u \in Peterson!Threads : Peterson!Pending(u, "counter") # {}) = t
  BY <1>1, <1>3
<1> QED
  BY <1>1, <1>4 DEF Peterson!Latest


\* The same of the state after a step.
LEMMA LatestInBufferPrimed ==
  ASSUME NEW t \in Peterson!Threads, NEW n, buffer'[t] = << [loc |-> "counter", val |-> n] >>,
         buffer'[Peterson!Other(t)] = << >>
  PROVE  Peterson!Latest' = n
PROOF
<1>1. Peterson!Pending(t, "counter")' = {1} /\ Peterson!Read(t, "counter")' = n
  <2>1. Peterson!Pending(t, "counter")' = {1}
    BY DEF Peterson!Pending
  <2>2. (CHOOSE k \in {1} : \A j \in {1} : j <= k) = 1
    OBVIOUS
  <2> QED
    BY <2>1, <2>2 DEF Peterson!Read
<1>2. Peterson!Pending(Peterson!Other(t), "counter")' = {}
  BY DEF Peterson!Pending
<1>3. \A u \in Peterson!Threads : Peterson!Pending(u, "counter")' # {} => u = t
  BY <1>2, OtherThread
<1>4. (CHOOSE u \in Peterson!Threads : Peterson!Pending(u, "counter")' # {}) = t
  BY <1>1, <1>3
<1> QED
  BY <1>1, <1>4 DEF Peterson!Latest

-------------------------------------------------------------------------------

\* What Sc calls the flags.
Flags == [t \in Peterson!Threads |-> mem[Peterson!Flag(t)]]

\* The state the program starts in.
LEMMA PetersonInit ==
  ASSUME Peterson!MemoryInit, Peterson!OwnInit
  PROVE  PetersonInv /\ Peterson!Sc!Init
PROOF
<1> USE DEF Peterson!MemoryInit, Peterson!OwnInit
<1>1. PetersonMemory /\ StartInv /\ BufferInv
  BY DEF PetersonMemory, Locations, LockPlaces, StartInv, BufferInv, Peterson!Threads
<1>2. LockInv
  BY OtherThread DEF LockInv, Peterson!Threads, Peterson!Flag, InsideLock
<1>3. Peterson!Latest = 0
  BY LatestInMemory
<1>4. Peterson!Sc!Init
  BY <1>3, OtherThread DEF Peterson!Sc!Init, Peterson!Sc!ClientInit, Peterson!Sc!Threads,
      Peterson!Threads, Peterson!Flag
<1> QED
  BY <1>1, <1>2, <1>4 DEF PetersonInv

\* An exchange finds and leaves the thread's buffer empty; it leaves the counter.
LEMMA ExchangeOK ==
  ASSUME PetersonInv, NEW t \in Peterson!Threads, NEW x \in Locations \ {"counter"}, NEW n \in Nat,
         Peterson!Exchange(t, x, n)
  PROVE  /\ buffer[t] = << >> /\ buffer' = buffer /\ Peterson!Latest' = Peterson!Latest
         /\ mem' = [mem EXCEPT ![x] = n] /\ mem' \in [Locations -> Nat]
PROOF
<1>1. /\ buffer[t] = << >> /\ buffer' = buffer
      /\ mem' = [mem EXCEPT ![x] = n] /\ mem' \in [Locations -> Nat]
  BY DEF Peterson!Exchange, PetersonInv, PetersonMemory
<1>2. mem'["counter"] = mem["counter"]
  BY <1>1 DEF PetersonInv, PetersonMemory, Locations
<1>3. \A u : Peterson!Pending(u, "counter")' = Peterson!Pending(u, "counter")
      /\ Peterson!Read(u, "counter")' = Peterson!Read(u, "counter")
  BY <1>1, <1>2 DEF Peterson!Pending, Peterson!Read
<1>4. Peterson!Latest' = Peterson!Latest
  BY <1>2, <1>3 DEF Peterson!Latest
<1> QED
  BY <1>1, <1>4

\* SetFlag
LEMMA SetFlagOK ==
  ASSUME PetersonInv, NEW t \in Peterson!Threads, Peterson!SetFlag(t)
  PROVE  PetersonInv' /\ Peterson!Sc!SetFlag(t)
PROOF
<1> DEFINE o == Peterson!Other(t)
<1>1. o \in Peterson!Threads /\ o # t /\ Peterson!Other(o) = t
      /\ Peterson!Flag(o) # Peterson!Flag(t)
      /\ Peterson!Flag(t) \in Locations \ {"turn", "counter"}
         /\ Peterson!Flag(o) \in Locations \ {"turn", "counter"}
      /\ \A u \in Peterson!Threads : u = t \/ u = o
  BY OtherThread
<1>2. /\ buffer[t] = << >> /\ buffer' = buffer /\ Peterson!Latest' = Peterson!Latest
      /\ mem' = [mem EXCEPT ![Peterson!Flag(t)] = 1] /\ mem' \in [Locations -> Nat]
  BY <1>1, ExchangeOK DEF Peterson!SetFlag
<1>3. /\ tpc[t] = "lock" /\ tpc' = [tpc EXCEPT ![t] = "set_turn"]
      /\ UNCHANGED <<reg, iter, main, started, joined>>
  BY DEF Peterson!SetFlag, Peterson!Client!LockStep, Peterson!Client!Goto
<1>4. PetersonMemory' /\ StartInv' /\ BufferInv'
  BY <1>1, <1>2, <1>3 DEF PetersonInv, PetersonMemory, StartInv, BufferInv, LockPlaces,
      Peterson!Threads
<1>5. LockInv'
  BY <1>1, <1>2, <1>3 DEF PetersonInv, PetersonMemory, LockInv, InsideLock, Locations,
      Peterson!Threads
<1>6. Flags' = [Flags EXCEPT ![t] = 1]
  BY <1>1, <1>2 DEF Flags, PetersonInv, PetersonMemory
<1>7. mem'["turn"] = mem["turn"]
  BY <1>1, <1>2 DEF PetersonInv, PetersonMemory, Locations
<1> QED
  BY <1>2, <1>3, <1>4, <1>5, <1>6, <1>7
  DEF PetersonInv, Flags, Peterson!Sc!SetFlag, Peterson!Sc!LockStep, Peterson!Sc!Goto

\* SetTurn
LEMMA SetTurnOK ==
  ASSUME PetersonInv, NEW t \in Peterson!Threads, Peterson!SetTurn(t)
  PROVE  PetersonInv' /\ Peterson!Sc!SetTurn(t)
PROOF
<1> DEFINE o == Peterson!Other(t)
<1>1. o \in Peterson!Threads /\ o # t /\ Peterson!Other(o) = t
      /\ Peterson!Flag(o) # Peterson!Flag(t)
      /\ Peterson!Flag(t) \in Locations \ {"turn", "counter"}
         /\ Peterson!Flag(o) \in Locations \ {"turn", "counter"}
      /\ \A u \in Peterson!Threads : u = t \/ u = o
  BY OtherThread
<1>2. /\ buffer[t] = << >> /\ buffer' = buffer /\ Peterson!Latest' = Peterson!Latest
      /\ mem' = [mem EXCEPT !["turn"] = o] /\ mem' \in [Locations -> Nat]
  BY <1>1, ExchangeOK DEF Peterson!SetTurn, Locations, Peterson!Threads
<1>3. /\ tpc[t] = "set_turn" /\ tpc' = [tpc EXCEPT ![t] = "read_flag"]
      /\ UNCHANGED <<reg, iter, main, started, joined>>
  BY DEF Peterson!SetTurn, Peterson!Client!LockStep, Peterson!Client!Goto
<1>4. PetersonMemory' /\ StartInv' /\ BufferInv'
  BY <1>1, <1>2, <1>3 DEF PetersonInv, PetersonMemory, StartInv, BufferInv, LockPlaces,
      Peterson!Threads
<1>5. LockInv'
  BY <1>1, <1>2, <1>3 DEF PetersonInv, PetersonMemory, LockInv, InsideLock, Locations,
      Peterson!Threads
<1>6. Flags' = Flags
  BY <1>1, <1>2 DEF Flags, PetersonInv, PetersonMemory
<1>7. mem'["turn"] = Peterson!Sc!Other(t)
  BY <1>1, <1>2 DEF PetersonInv, PetersonMemory, Locations, Peterson!Sc!Other, Peterson!Other
<1> QED
  BY <1>2, <1>3, <1>4, <1>5, <1>6, <1>7
  DEF PetersonInv, Flags, Peterson!Sc!SetTurn, Peterson!Sc!LockStep, Peterson!Sc!Goto

\* A step that changes nothing in memory leaves the counter.
LEMMA SameMemory ==
  ASSUME UNCHANGED Peterson!memory
  PROVE  Peterson!Latest' = Peterson!Latest /\ Flags' = Flags /\ mem'["turn"] = mem["turn"]
PROOF
<1>1. mem' = mem /\ buffer' = buffer
  BY DEF Peterson!memory
<1>2. \A u : Peterson!Pending(u, "counter")' = Peterson!Pending(u, "counter")
      /\ Peterson!Read(u, "counter")' = Peterson!Read(u, "counter")
  BY <1>1 DEF Peterson!Pending, Peterson!Read
<1> QED
  BY <1>1, <1>2 DEF Peterson!Latest, Flags

\* What a thread that has nothing in its buffer reads of the lock.
LEMMA ReadLock ==
  ASSUME PetersonInv, NEW t \in Peterson!Threads, tpc[t] # "unlock"
  PROVE  /\ buffer[t] = << >> /\ Peterson!Read(t, "turn") = mem["turn"]
         /\ Peterson!Read(t,
             Peterson!Flag(Peterson!Other(t))) = mem[Peterson!Flag(Peterson!Other(t))]
PROOF
<1>1. buffer[t] = << >>
  BY DEF PetersonInv, BufferInv
<1> QED
  BY <1>1, ReadMemory

\* ReadFlag
LEMMA ReadFlagOK ==
  ASSUME PetersonInv, NEW t \in Peterson!Threads, Peterson!ReadFlag(t)
  PROVE  PetersonInv' /\ Peterson!Sc!ReadFlag(t)
PROOF
<1> DEFINE o == Peterson!Other(t)
           after == IF mem[Peterson!Flag(o)] = 1 THEN "read_turn" ELSE "load"
<1>1. o \in Peterson!Threads /\ o # t /\ Peterson!Other(o) = t
      /\ \A u \in Peterson!Threads : u = t \/ u = o
  BY OtherThread
<1>2. /\ tpc[t] = "read_flag" /\ tpc' = [tpc EXCEPT ![t] = after]
      /\ UNCHANGED <<reg, iter, main, started, joined, Peterson!memory>>
  BY ReadLock DEF Peterson!ReadFlag, Peterson!Client!LockStep, Peterson!Client!Goto
<1>3. mem' = mem /\ buffer' = buffer
  BY <1>2 DEF Peterson!memory
<1>4. PetersonMemory' /\ StartInv' /\ BufferInv'
  BY <1>1, <1>2, <1>3 DEF PetersonInv, PetersonMemory, StartInv, BufferInv, LockPlaces,
      InsideLock, Peterson!Threads
<1>5. LockInv'
  BY <1>1, <1>2, <1>3 DEF PetersonInv, PetersonMemory, LockInv, InsideLock, Peterson!Threads
<1>6. Flags[Peterson!Sc!Other(t)] = mem[Peterson!Flag(o)]
  BY <1>1 DEF Flags, Peterson!Other, Peterson!Sc!Other
<1> QED
  BY <1>2, <1>4, <1>5, <1>6, SameMemory
  DEF PetersonInv, Flags, Peterson!Sc!ReadFlag, Peterson!Sc!LockStep, Peterson!Sc!Goto,
      Peterson!Sc!lock

\* ReadTurn
LEMMA ReadTurnOK ==
  ASSUME PetersonInv, NEW t \in Peterson!Threads, Peterson!ReadTurn(t)
  PROVE  PetersonInv' /\ Peterson!Sc!ReadTurn(t)
PROOF
<1> DEFINE o == Peterson!Other(t)
           after == IF mem["turn"] = o THEN "read_flag" ELSE "load"
<1>1. o \in Peterson!Threads /\ o # t /\ Peterson!Other(o) = t
      /\ \A u \in Peterson!Threads : u = t \/ u = o
  BY OtherThread
<1>2. /\ tpc[t] = "read_turn" /\ tpc' = [tpc EXCEPT ![t] = after]
      /\ UNCHANGED <<reg, iter, main, started, joined, Peterson!memory>>
  BY ReadLock DEF Peterson!ReadTurn, Peterson!Client!LockStep, Peterson!Client!Goto
<1>3. mem' = mem /\ buffer' = buffer
  BY <1>2 DEF Peterson!memory
<1>4. PetersonMemory' /\ StartInv' /\ BufferInv'
  BY <1>1, <1>2, <1>3 DEF PetersonInv, PetersonMemory, StartInv, BufferInv, LockPlaces,
      InsideLock, Peterson!Threads
<1>5. LockInv'
  BY <1>1, <1>2, <1>3 DEF PetersonInv, PetersonMemory, LockInv, InsideLock, Peterson!Threads
<1> QED
  BY <1>2, <1>4, <1>5, SameMemory
  DEF PetersonInv, Flags, Peterson!Other, Peterson!Sc!Other, Peterson!Sc!ReadTurn,
      Peterson!Sc!LockStep, Peterson!Sc!Goto, Peterson!Sc!lock

\* A thread inside finds the other's buffer empty, and if it has not stored yet
\* all buffers.
LEMMA InsideAlone ==
  ASSUME PetersonInv, NEW t \in Peterson!Threads, tpc[t] \in InsideLock
  PROVE  /\ buffer[Peterson!Other(t)] = << >>
         /\ tpc[t] # "unlock" => \A u \in Peterson!Threads : buffer[u] = << >>
  BY OtherThread DEF PetersonInv, BufferInv, LockInv, InsideLock, Peterson!Threads

\* The load finds the latest value.
LEMMA PetersonLoadOK ==
  ASSUME PetersonInv, NEW t \in Peterson!Threads, Peterson!Load(t)
  PROVE  PetersonInv' /\ Peterson!Sc!Load(t) /\ UNCHANGED Peterson!Sc!lock
PROOF
<1>1. /\ tpc[t] = "load" /\ tpc' = [tpc EXCEPT ![t] = "store"]
      /\ reg' = [reg EXCEPT ![t] = Peterson!Read(t, "counter")]
      /\ UNCHANGED <<iter, main, started, joined, Peterson!memory>>
  BY DEF Peterson!Load, Peterson!Client!Goto, Peterson!memory
<1>2. \A u \in Peterson!Threads : buffer[u] = << >>
  BY <1>1, InsideAlone DEF InsideLock
<1>3. Peterson!Read(t, "counter") = Peterson!Latest /\ Peterson!Latest \in Nat
  BY <1>2, ReadMemory, LatestInMemory DEF PetersonInv, PetersonMemory, Locations
<1>4. mem' = mem /\ buffer' = buffer
  BY <1>1 DEF Peterson!memory
<1>5. PetersonMemory' /\ StartInv' /\ BufferInv'
  BY <1>1, <1>2, <1>3, <1>4 DEF PetersonInv, PetersonMemory, StartInv, BufferInv, LockPlaces,
      InsideLock, Peterson!Threads
<1>6. LockInv'
  BY <1>1, <1>4, OtherThread DEF PetersonInv, PetersonMemory, LockInv, InsideLock, Peterson!Threads
<1> QED
  BY <1>1, <1>3, <1>5, <1>6, SameMemory DEF PetersonInv, Flags, Peterson!Sc!Load,
      Peterson!Sc!Goto, Peterson!Sc!lock

\* The store is the latest value from the moment it is in the buffer.
LEMMA PetersonStoreOK ==
  ASSUME PetersonInv, NEW t \in Peterson!Threads, Peterson!Store(t)
  PROVE  PetersonInv' /\ Peterson!Sc!Store(t) /\ UNCHANGED Peterson!Sc!lock
PROOF
<1> DEFINE o == Peterson!Other(t)
           c == [loc |-> "counter", val |-> reg[t] + 1]
<1>1. o \in Peterson!Threads /\ o # t /\ Peterson!Other(o) = t
      /\ \A u \in Peterson!Threads : u = t \/ u = o
  BY OtherThread
<1>2. /\ tpc[t] = "store" /\ tpc' = [tpc EXCEPT ![t] = "unlock"] /\ mem' = mem
      /\ buffer' = [buffer EXCEPT ![t] = Append(@, c)]
      /\ UNCHANGED <<reg, iter, main, started, joined>>
  BY DEF Peterson!Store, Peterson!Write, Peterson!Client!Goto
<1>3. buffer[t] = << >> /\ buffer[o] = << >>
  BY <1>1, <1>2, InsideAlone DEF InsideLock
<1>4. c \in [loc : {"counter"}, val : Nat]
  BY DEF PetersonInv, PetersonMemory
<1>5. buffer'[t] = << c >> /\ buffer'[o] = << >>
      /\ buffer' \in [Peterson!Threads -> Seq([loc : {"counter"}, val : Nat])]
  BY <1>1, <1>2, <1>3, <1>4 DEF PetersonInv, PetersonMemory
<1>6. PetersonMemory' /\ StartInv'
  BY <1>1, <1>2, <1>5 DEF PetersonInv, PetersonMemory, StartInv, LockPlaces, InsideLock,
      Peterson!Threads
<1>7. BufferInv'
  BY <1>1, <1>2, <1>5 DEF PetersonInv, PetersonMemory, BufferInv
<1>8. LockInv'
  BY <1>1, <1>2 DEF PetersonInv, PetersonMemory, LockInv, InsideLock, Peterson!Threads
<1>9. Peterson!Latest' = reg[t] + 1
  BY <1>1, <1>5, LatestInBufferPrimed
<1>10. Flags' = Flags
  BY <1>2 DEF Flags
<1> QED
  BY <1>2, <1>6, <1>7, <1>8, <1>9, <1>10 DEF PetersonInv, Flags, Peterson!Sc!Store,
      Peterson!Sc!Goto, Peterson!Sc!lock

\* The unlocking exchange waits until the counter is in memory.
LEMMA UnlockOK ==
  ASSUME PetersonInv, NEW t \in Peterson!Threads, Peterson!Unlock(t)
  PROVE  PetersonInv' /\ Peterson!Sc!Unlock(t)
PROOF
<1> DEFINE o == Peterson!Other(t)
           after == IF iter[t] + 1 < LockIterations THEN "lock" ELSE "done"
<1>1. o \in Peterson!Threads /\ o # t /\ Peterson!Other(o) = t
      /\ Peterson!Flag(o) # Peterson!Flag(t)
      /\ Peterson!Flag(t) \in Locations \ {"turn", "counter"}
         /\ Peterson!Flag(o) \in Locations \ {"turn", "counter"}
      /\ \A u \in Peterson!Threads : u = t \/ u = o
  BY OtherThread
<1>2. /\ buffer[t] = << >> /\ buffer' = buffer /\ Peterson!Latest' = Peterson!Latest
      /\ mem' = [mem EXCEPT ![Peterson!Flag(t)] = 0] /\ mem' \in [Locations -> Nat]
  BY <1>1, ExchangeOK DEF Peterson!Unlock
<1>3. /\ tpc[t] = "unlock" /\ tpc' = [tpc EXCEPT ![t] = after]
      /\ iter' = [iter EXCEPT ![t] = @ + 1]
      /\ UNCHANGED <<reg, main, started, joined>>
  BY DEF Peterson!Unlock, Peterson!Client!EndIteration, Peterson!Client!Goto
<1>4. PetersonMemory' /\ StartInv'
  BY <1>1, <1>2, <1>3 DEF PetersonInv, PetersonMemory, StartInv, LockPlaces, InsideLock,
      Peterson!Threads
<1>5. BufferInv'
  BY <1>1, <1>2, <1>3 DEF PetersonInv, PetersonMemory, BufferInv
<1>6. LockInv'
  BY <1>1, <1>2, <1>3 DEF PetersonInv, PetersonMemory, LockInv, InsideLock, Locations,
      Peterson!Threads
<1>7. Flags' = [Flags EXCEPT ![t] = 0]
  BY <1>1, <1>2 DEF Flags, PetersonInv, PetersonMemory
<1>8. mem'["turn"] = mem["turn"]
  BY <1>1, <1>2 DEF PetersonInv, PetersonMemory, Locations
<1> QED
  BY <1>2, <1>3, <1>4, <1>5, <1>6, <1>7, <1>8
  DEF PetersonInv, Flags, Peterson!Sc!Unlock, Peterson!Sc!EndIteration, Peterson!Sc!Goto

\* The latest value stays the same when it reaches memory.
LEMMA PetersonFlushOK ==
  ASSUME PetersonInv, NEW t \in Peterson!Threads, Peterson!MemoryStep(t)
  PROVE  PetersonInv' /\ UNCHANGED Peterson!Sc!vars
PROOF
<1> DEFINE o == Peterson!Other(t)
           n == reg[t] + 1
<1>1. o \in Peterson!Threads /\ o # t /\ Peterson!Other(o) = t
      /\ \A u \in Peterson!Threads : u = t \/ u = o
  BY OtherThread
<1>2. /\ buffer[t] # << >>
      /\ mem' = [mem EXCEPT ![Head(buffer[t]).loc] = Head(buffer[t]).val]
      /\ buffer' = [buffer EXCEPT ![t] = Tail(@)]
      /\ UNCHANGED <<tpc, reg, iter, main, started, joined>>
  BY DEF Peterson!MemoryStep, Peterson!Flush, Peterson!local
<1>3. tpc[t] = "unlock" /\ buffer[t] = << [loc |-> "counter", val |-> n] >> /\ n \in Nat
  BY <1>2 DEF PetersonInv, BufferInv, PetersonMemory
<1>4. buffer[o] = << >>
  BY <1>3, InsideAlone DEF InsideLock
<1>5. mem' = [mem EXCEPT !["counter"] = n] /\ buffer' = [buffer EXCEPT ![t] = << >>]
  <2> DEFINE c == [loc |-> "counter", val |-> n]
  <2>1. Head(<< c >>) = c /\ Tail(<< c >>) = << >>
    OBVIOUS
  <2>2. Head(buffer[t]) = c /\ Tail(buffer[t]) = << >> /\ c.loc = "counter" /\ c.val = n
    BY <1>3, <2>1
  <2> HIDE DEF c
  <2> QED
    BY <1>2, <2>2
<1>6. /\ mem' \in [Locations -> Nat] /\ mem'["counter"] = n
      /\ \A l \in Locations \ {"counter"} : mem'[l] = mem[l]
  BY <1>3, <1>5 DEF PetersonInv, PetersonMemory, Locations
<1>7. \A u \in Peterson!Threads : buffer'[u] = << >>
  BY <1>1, <1>4, <1>5 DEF PetersonInv, PetersonMemory
<1>8. Peterson!Latest = n
  BY <1>3, <1>4, LatestInBuffer
<1>9. Peterson!Latest' = n
  <2>1. \A u \in Peterson!Threads : Peterson!Pending(u, "counter")' = {}
    BY <1>7 DEF Peterson!Pending
  <2> QED
    BY <1>6, <2>1 DEF Peterson!Latest
<1>10. Flags' = Flags /\ mem'["turn"] = mem["turn"]
  <2>1. \A u \in Peterson!Threads : mem'[Peterson!Flag(u)] = mem[Peterson!Flag(u)]
    BY <1>6, OtherThread
  <2> QED
    BY <1>6, <2>1 DEF Flags, Locations
<1>11. buffer' \in [Peterson!Threads -> Seq([loc : {"counter"}, val : Nat])]
  BY <1>5 DEF PetersonInv, PetersonMemory
<1>12. PetersonMemory' /\ StartInv' /\ BufferInv'
  BY <1>2, <1>6, <1>7, <1>11 DEF PetersonInv, PetersonMemory, StartInv, BufferInv
<1>13. LockInv'
  BY <1>2, <1>6, OtherThread DEF PetersonInv, LockInv, Locations
<1> QED
  BY <1>2, <1>8, <1>9, <1>10, <1>12, <1>13
  DEF PetersonInv, Flags, Peterson!Sc!vars, Peterson!Sc!client, Peterson!Sc!lock

\* main
LEMMA PetersonMainOK ==
  ASSUME PetersonInv, Peterson!Main
  PROVE  PetersonInv' /\ Peterson!Sc!Main
PROOF
<1>1. mem' = mem /\ buffer' = buffer
  BY DEF Peterson!Main, Peterson!memory
<1>2. Peterson!Latest' = Peterson!Latest /\ Flags' = Flags /\ mem'["turn"] = mem["turn"]
  BY SameMemory DEF Peterson!Main
<1>3. UNCHANGED Peterson!Sc!lock
  BY <1>2 DEF Flags, Peterson!Sc!lock
<1>4. CASE Peterson!Client!Create
  <2> USE <1>4 DEF Peterson!Client!Create
  <2>1. started \in Peterson!Threads /\ tpc[started] = "none"
    BY DEF PetersonInv, StartInv, Peterson!Threads
  <2>2. PetersonMemory' /\ StartInv'
    BY <1>1, <2>1 DEF PetersonInv, PetersonMemory, StartInv, LockPlaces, InsideLock,
        Peterson!Threads
  <2>3. BufferInv'
    BY <1>1, <2>1 DEF PetersonInv, PetersonMemory, BufferInv
  <2>4. LockInv'
    BY <1>1, <2>1, OtherThread DEF PetersonInv, PetersonMemory, LockInv, InsideLock,
        Peterson!Threads
  <2> QED
    BY <1>2, <1>3, <2>2, <2>3, <2>4 DEF PetersonInv, Peterson!Sc!Main, Peterson!Sc!MainStep,
        Peterson!Sc!Create
<1>5. CASE Peterson!Client!Join
  <2> USE <1>5 DEF Peterson!Client!Join
  <2>1. PetersonInv'
    BY <1>1 DEF PetersonInv, PetersonMemory, StartInv, BufferInv, LockInv
  <2> QED
    BY <1>2, <1>3, <2>1 DEF Peterson!Sc!Main, Peterson!Sc!MainStep, Peterson!Sc!Join
<1>6. CASE Peterson!Client!Report
  <2> USE <1>6 DEF Peterson!Client!Report
  <2>1. PetersonInv'
    BY <1>1 DEF PetersonInv, PetersonMemory, StartInv, BufferInv, LockInv
  <2> QED
    BY <1>2, <1>3, <2>1 DEF Peterson!Sc!Main, Peterson!Sc!MainStep, Peterson!Sc!Report
<1> QED
  BY <1>4, <1>5, <1>6 DEF Peterson!Main, Peterson!Client!MainStep

\* Every step keeps the invariant and is a step of Sc or none.
LEMMA PetersonStep ==
  ASSUME PetersonInv, [Peterson!Step]_<<Peterson!memory, Peterson!local>>
  PROVE  PetersonInv' /\ [Peterson!Sc!Next]_(Peterson!Sc!vars)
PROOF
<1>1. ASSUME NEW t \in Peterson!Threads, Peterson!Thread(t)
      PROVE  PetersonInv' /\ Peterson!Sc!Thread(t)
  BY <1>1, SetFlagOK, SetTurnOK, ReadFlagOK, ReadTurnOK, PetersonLoadOK, PetersonStoreOK, UnlockOK
  DEF Peterson!Thread, Peterson!Sc!Thread, Peterson!Sc!ClientStep
<1>2. Peterson!Threads = Peterson!Sc!Threads
  BY DEF Peterson!Threads, Peterson!Sc!Threads
<1>3. CASE Peterson!Main
  BY <1>3, PetersonMainOK DEF Peterson!Sc!Next
<1>4. CASE \E t \in Peterson!Threads : Peterson!Thread(t)
  BY <1>1, <1>2, <1>4 DEF Peterson!Sc!Next
<1>5. CASE \E t \in Peterson!Threads : Peterson!MemoryStep(t)
  BY <1>5, PetersonFlushOK
<1>6. CASE UNCHANGED <<Peterson!memory, Peterson!local>>
  <2>1. PetersonInv'
    BY <1>6 DEF Peterson!memory, Peterson!local, PetersonInv, PetersonMemory, StartInv,
        BufferInv, LockInv
  <2>2. UNCHANGED Peterson!Sc!vars
    BY <1>6, SameMemory DEF Peterson!memory, Peterson!local, Flags, Peterson!Sc!vars,
        Peterson!Sc!client, Peterson!Sc!lock
  <2> QED
    BY <2>1, <2>2
<1> QED
  BY <1>3, <1>4, <1>5, <1>6 DEF Peterson!Step

\* The part of the invariant, and of the refinement, that is about peterson.c.
Inv == program = "peterson" => PetersonInv

ScInit == program = "peterson" => Peterson!Sc!Init
ScStep == program = "peterson" => [Peterson!Sc!Next]_(Peterson!Sc!vars)

\* Initially the invariant holds and peterson.c starts where the sequentially
\* consistent program does.
LEMMA InitOK == Init => Inv /\ ScInit
PROOF
<1>1. ASSUME Init, program = "peterson"
      PROVE  Peterson!MemoryInit /\ Peterson!OwnInit
  BY <1>1 DEF Init
<1> QED
  BY <1>1, PetersonInit DEF Inv, ScInit

\* While peterson.c runs, every step of StoreBuffers is one of its own, or none.
LEMMA OnlyItsSteps ==
  ASSUME program = "peterson", [Next]_vars
  PROVE  [Peterson!Step]_<<Peterson!memory, Peterson!local>>
PROOF
<1>1. CASE LockMain \/ \E t \in Peterson!Threads : LockThread(t) \/ LockMemory(t)
  BY <1>1 DEF LockMain, LockThread, LockMemory, Peterson!Step
<1>2. CASE UNCHANGED vars
  BY <1>2 DEF vars, locked, memory, Peterson!memory, Peterson!local
<1> QED
  BY <1>1, <1>2 DEF Next, Server, Client, ShmMemory, OnlyHandshake, Experiment,
     OnlyExperiment, CpuAtomic, CpuNonAtomic, OnlyReading, Terminated

\* No step turns one program into another.
LEMMA SameProgram == [Next]_vars => program' = program
  BY DEF Next, vars, Server, Client, ShmMemory, OnlyHandshake, Experiment,
     OnlyExperiment, LockMain, LockThread, LockMemory, OnlyLocked, CpuAtomic, CpuNonAtomic, OnlyReading, Terminated

\* Every step keeps the invariant and is one of the sequentially consistent
\* program's, or a stutter of it.
LEMMA StepOK == Inv /\ [Next]_vars => Inv' /\ ScStep
PROOF
<1>1. ASSUME Inv, [Next]_vars, program = "peterson"
      PROVE  PetersonInv' /\ [Peterson!Sc!Next]_(Peterson!Sc!vars)
  BY <1>1, OnlyItsSteps, PetersonStep DEF Inv
<1> QED
  BY <1>1, SameProgram DEF Inv, ScStep

\* For every number of iterations peterson.c with atomic flags and turn and a
\* plain counter does on store buffers what it does on sequentially consistent
\* memory.
THEOREM PetersonOnStoreBuffers == Spec => ImplementsScPeterson
PROOF
<1>1. Init => Inv /\ ScInit
  BY InitOK
<1>2. Inv /\ [Next]_vars => Inv' /\ [ScStep]_vars
  BY StepOK
<1> QED
  BY <1>1, <1>2, PTL DEF Spec, ImplementsScPeterson, ScInit, ScStep

\* peterson_lock excludes on x86, for any number of iterations.
THEOREM PetersonExcludes == Spec => []MutualExclusion
PROOF
<1>1. Inv => MutualExclusion
  <2>1. PetersonInv => Peterson!Sc!MutualExclusion
    BY DEF PetersonInv, LockInv, InsideLock, Peterson!Sc!MutualExclusion,
           Peterson!Sc!InCriticalSection, Peterson!Sc!Threads
  <2> QED
    BY <2>1 DEF Inv, MutualExclusion
<1> QED
  BY <1>1, InitOK, StepOK, PTL DEF Spec

\* Who waits with the turn stays next: a step of the other thread either waits too
\* or gives the turn away again.
LEMMA ScKeepsTurn ==
  ASSUME PetersonInv, Peterson!Sc!Next
  PROVE  Peterson!Sc!WaiterKeepsTurn
PROOF
<1> SUFFICES ASSUME NEW t \in Peterson!Threads,
                    Peterson!Sc!Spinning(t), Peterson!Sc!Spinning(Peterson!Sc!Other(t)),
                    mem["turn"] = t, ~Peterson!Sc!InCriticalSection(t)'
             PROVE  mem'["turn"] = t /\ ~Peterson!Sc!InCriticalSection(Peterson!Sc!Other(t))'
  BY DEF Peterson!Sc!WaiterKeepsTurn, Peterson!Sc!Threads, Peterson!Threads
<1> DEFINE o == Peterson!Other(t)
<1>1. o \in Peterson!Threads /\ o # t /\ Peterson!Other(o) = t
      /\ \A u \in Peterson!Threads : u = t \/ u = o
  BY OtherThread
<1>2. Peterson!Sc!Other(t) = o /\ Peterson!Sc!Other(o) = t
  BY <1>1 DEF Peterson!Sc!Other, Peterson!Other
<1>3. Flags[t] = 1
  BY DEF PetersonInv, LockInv, Flags, Peterson!Sc!Spinning
<1>4. tpc \in [Peterson!Threads -> LockPlaces]
  BY DEF PetersonInv, PetersonMemory
<1> HIDE DEF o
<1> USE <1>1, <1>2, <1>3, <1>4
    DEF Peterson!Sc!Spinning, Peterson!Sc!InCriticalSection, Peterson!Sc!LockStep,
        Peterson!Sc!Goto, Peterson!Sc!lock, Flags
<1>5. CASE Peterson!Sc!Thread(t)
  BY <1>5 DEF Peterson!Sc!Thread, Peterson!Sc!SetFlag, Peterson!Sc!SetTurn, Peterson!Sc!ReadFlag,
     Peterson!Sc!ReadTurn, Peterson!Sc!ClientStep, Peterson!Sc!Load, Peterson!Sc!Store,
     Peterson!Sc!Unlock, Peterson!Sc!EndIteration
<1>6. CASE Peterson!Sc!Thread(o)
  BY <1>6 DEF Peterson!Sc!Thread, Peterson!Sc!SetFlag, Peterson!Sc!SetTurn, Peterson!Sc!ReadFlag,
     Peterson!Sc!ReadTurn, Peterson!Sc!ClientStep, Peterson!Sc!Load, Peterson!Sc!Store,
     Peterson!Sc!Unlock, Peterson!Sc!EndIteration
<1>7. CASE Peterson!Sc!Main
  <2>1. CASE Peterson!Sc!Create
    <3>1. tpc[started] = "none" /\ started \in Peterson!Threads
      BY <2>1 DEF Peterson!Sc!Create, PetersonInv, StartInv, Peterson!Threads
    <3> QED
      BY <1>7, <2>1, <3>1 DEF Peterson!Sc!Main, Peterson!Sc!Create
  <2> QED
    BY <1>7, <2>1 DEF Peterson!Sc!Main, Peterson!Sc!MainStep, Peterson!Sc!Join, Peterson!Sc!Report
<1>8. CASE Peterson!Sc!Terminated
  BY <1>8 DEF Peterson!Sc!Terminated, Peterson!Sc!vars, Peterson!Sc!client
<1> QED
  BY <1>5, <1>6, <1>7, <1>8 DEF Peterson!Sc!Next, Peterson!Sc!Threads, Peterson!Threads

\* A thread that waits in peterson_lock keeps the turn it was given and is not
\* passed, whatever the other thread does.
THEOREM PetersonKeepsTurn == Spec => TurnKept
PROOF
<1> DEFINE Kept == program = "peterson" => Peterson!Sc!WaiterKeepsTurn
<1>1. Inv /\ [Next]_vars => Inv' /\ [Kept]_vars
  <2>1. ASSUME Inv, [Next]_vars, program = "peterson", ~UNCHANGED vars
        PROVE  Peterson!Sc!WaiterKeepsTurn
    <3>1. CASE Peterson!Sc!Next
      BY <2>1, <3>1, ScKeepsTurn DEF Inv
    <3>2. CASE UNCHANGED Peterson!Sc!vars
      BY <3>2 DEF Peterson!Sc!vars, Peterson!Sc!client, Peterson!Sc!lock,
         Peterson!Sc!WaiterKeepsTurn, Peterson!Sc!Spinning, Peterson!Sc!InCriticalSection
    <3> QED
      BY <2>1, <3>1, <3>2, StepOK DEF ScStep
  <2> QED
    BY <2>1, StepOK
<1> QED
  BY <1>1, InitOK, PTL DEF Spec, TurnKept

\* The places of a thread in LockClient that are Peterson's own.
LockPc == {"set_turn", "read_flag", "read_turn"}

ClientOK ==
  program = "peterson" =>
    Locked!ClientTypeOK(LockPc) /\ Locked!ClientInv

\* No increment is lost: the program with its plain `++' and its two store buffers
\* implements the atomic counter.
CountsIncrements ==
  /\ program = "peterson" => Locked!Counter!Init
  /\ [][program = "peterson" => [Locked!Counter!Next]_(Locked!Counter!vars)]_vars

\* What LockClient assumes of its constants is true of this instance.
LEMMA LockedAssumption == 2 \in Nat \ {0} /\ LockIterations \in Nat \ {0}
  BY StoreBuffersAssumption

\* What follows is for this client what Spinlocks_proofs shows for those of the
\* other locks.
ClientNames == {"none", "lock", "load", "store", "unlock", "done"}

\* What a step keeps and implements, when its own places are LockPc.
Good ==
  /\ Locked!ClientTypeOK(LockPc)'
  /\ Locked!ClientInv'
  /\ [Locked!Counter!Next]_(Locked!Counter!vars)

\* The client starts in a state of the invariant that maps to an initial state
\* of AtomicCounter.
LEMMA LockedInitOK ==
  ASSUME Locked!ClientInit
  PROVE  /\ Locked!ClientTypeOK(LockPc) /\ Locked!ClientInv
         /\ Locked!MutualExclusion /\ Locked!Counter!Init
PROOF
<1> USE LockedAssumption DEF Locked!ClientInit, Locked!Threads
<1>1. Locked!ClientTypeOK(LockPc)
  BY DEF Locked!ClientTypeOK
<1>2. Locked!ClientInv
  BY DEF Locked!ClientInv, Locked!LoadIsFresh, Locked!LoopInv,
         Locked!MainInv
<1>3. Locked!MutualExclusion
  BY DEF Locked!MutualExclusion, Locked!InCriticalSection
<1>4. Locked!Counter!Init
  BY DEF Locked!Counter!Init
<1> QED
  BY <1>1, <1>2, <1>3, <1>4

\* A step of the lock's own code stutters in AtomicCounter.
LEMMA LockedStepOK ==
  ASSUME Locked!ClientTypeOK(LockPc), Locked!ClientInv,
         NEW t \in Locked!Threads,
         NEW from \in LockPc \cup {"lock"}, NEW to \in LockPc \cup {"lock", "load"},
         Locked!LockStep(t, from, to)
  PROVE  Good
PROOF
<1> USE LockedAssumption DEF Locked!LockStep, Locked!Goto, Locked!Threads, ClientNames, LockPc
<1>1. Locked!ClientTypeOK(LockPc)'
  BY DEF Locked!ClientTypeOK
<1>2. Locked!ClientInv'
  BY DEF Locked!ClientTypeOK, Locked!ClientInv, Locked!LoadIsFresh, Locked!LoopInv,
         Locked!MainInv
<1>3. UNCHANGED Locked!Counter!vars
  BY DEF Locked!ClientTypeOK, Locked!Counter!vars
<1> QED
  BY <1>1, <1>2, <1>3 DEF Good

\* The load of shared_counter stutters.
LEMMA LockedLoadOK ==
  ASSUME Locked!ClientTypeOK(LockPc), Locked!ClientInv,
         NEW t \in Locked!Threads, Locked!Load(t)
  PROVE  Good
PROOF
<1> USE LockedAssumption DEF Locked!Load, Locked!Goto, Locked!Threads, ClientNames
<1>1. Locked!ClientTypeOK(LockPc)'
  BY DEF Locked!ClientTypeOK
<1>2. Locked!ClientInv'
  BY DEF Locked!ClientTypeOK, Locked!ClientInv, Locked!LoadIsFresh, Locked!LoopInv,
         Locked!MainInv
<1>3. UNCHANGED Locked!Counter!vars
  BY DEF Locked!ClientTypeOK, Locked!Counter!vars
<1> QED
  BY <1>1, <1>2, <1>3 DEF Good

\* The store is an increment, because nobody else is between a load and a
\* store.
LEMMA LockedStoreOK ==
  ASSUME Locked!ClientTypeOK(LockPc), Locked!ClientInv, Locked!MutualExclusion,
         NEW t \in Locked!Threads, Locked!Store(t)
  PROVE  Good
PROOF
<1> USE LockedAssumption DEF Locked!Store, Locked!Goto, Locked!Threads, ClientNames
<1>1. Locked!ClientTypeOK(LockPc)'
  <2>1. Peterson!Latest' \in Nat
    BY DEF Locked!ClientTypeOK
  <2>2. tpc' \in [Locked!Threads -> LockPc \cup ClientNames]
    BY DEF Locked!ClientTypeOK
  <2> QED
    BY <2>1, <2>2 DEF Locked!ClientTypeOK
<1>2. \A u \in Locked!Threads : u # t => tpc[u] # "store"
  BY DEF Locked!MutualExclusion, Locked!InCriticalSection
<1>3. Locked!ClientInv'
  BY <1>2 DEF Locked!ClientTypeOK, Locked!ClientInv, Locked!LoadIsFresh, Locked!LoopInv,
         Locked!MainInv
<1>4. Locked!Counter!Increment(t)
  <2>1. LockIterations - iter[t] > 0
    BY DEF Locked!ClientTypeOK, Locked!ClientInv, Locked!LoopInv
  <2>2. Peterson!Latest' = Peterson!Latest + 1
    BY DEF Locked!ClientInv, Locked!LoadIsFresh
  <2> DEFINE Left == [u \in Locked!Threads |->
                        LockIterations - iter[u] - (IF tpc[u] = "unlock" THEN 1 ELSE 0)]
  <2>3. Left' = [Left EXCEPT ![t] = @ - 1]
    <3>1. \A u \in Locked!Threads : Left'[u] = [Left EXCEPT ![t] = @ - 1][u]
      BY SMTT(30) DEF Locked!ClientTypeOK
    <3> QED
      BY <3>1
  <2>4. Left[t] > 0
    BY <2>1 DEF Locked!ClientTypeOK
  <2>5. (main' = "done") = (main = "done")
    OBVIOUS
  <2> QED
    BY <2>2, <2>3, <2>4, <2>5 DEF Locked!Counter!Increment
<1> QED
  BY <1>1, <1>3, <1>4 DEF Good, Locked!Counter!Next

\* The end of an iteration stutters: the increment has been counted.
LEMMA LockedEndOK ==
  ASSUME Locked!ClientTypeOK(LockPc), Locked!ClientInv,
         NEW t \in Locked!Threads, Locked!EndIteration(t)
  PROVE  Good
PROOF
<1> USE LockedAssumption DEF Locked!EndIteration, Locked!Goto, Locked!Threads, ClientNames
<1>1. iter[t] < LockIterations
  BY DEF Locked!ClientTypeOK, Locked!ClientInv, Locked!LoopInv
<1>2. Locked!ClientTypeOK(LockPc)'
  BY <1>1, SMTT(30) DEF Locked!ClientTypeOK
<1>3. Locked!ClientInv'
  BY <1>1, SMTT(30) DEF Locked!ClientTypeOK, Locked!ClientInv, Locked!LoadIsFresh, Locked!LoopInv,
         Locked!MainInv
<1>4. UNCHANGED Locked!Counter!vars
  <2> DEFINE Left == [u \in Locked!Threads |->
                        LockIterations - iter[u] - (IF tpc[u] = "unlock" THEN 1 ELSE 0)]
  <2>1. \A u \in Locked!Threads : Left'[u] = Left[u]
    BY <1>1, SMTT(30) DEF Locked!ClientTypeOK
  <2>2. Left' = Left
    BY <2>1
  <2> QED
    BY <2>2 DEF Locked!Counter!vars
<1> QED
  BY <1>2, <1>3, <1>4 DEF Good

\* The steps of main: only the report shows.
LEMMA LockedMainOK ==
  ASSUME Locked!ClientTypeOK(LockPc), Locked!ClientInv, Locked!MainStep
  PROVE  Good
PROOF
<1> USE LockedAssumption DEF Locked!Threads, ClientNames
<1>1. CASE Locked!Create
  <2> USE <1>1 DEF Locked!Create
  <2>1. started \in Locked!Threads /\ tpc[started] = "none" /\ started < 2
    BY DEF Locked!ClientTypeOK, Locked!ClientInv, Locked!MainInv
  <2>2. Locked!ClientTypeOK(LockPc)'
    BY <2>1 DEF Locked!ClientTypeOK
  <2>3. Locked!ClientInv'
    BY <2>1 DEF Locked!ClientTypeOK, Locked!ClientInv, Locked!LoadIsFresh, Locked!LoopInv,
         Locked!MainInv
  <2>4. UNCHANGED Locked!Counter!vars
    BY <2>1 DEF Locked!ClientTypeOK, Locked!Counter!vars
  <2> QED
    BY <2>2, <2>3, <2>4 DEF Good
<1>2. CASE Locked!Join
  <2> USE <1>2 DEF Locked!Join
  <2>1. joined < 2
    BY DEF Locked!ClientTypeOK, Locked!ClientInv, Locked!MainInv
  <2>2. Locked!ClientTypeOK(LockPc)'
    BY <2>1 DEF Locked!ClientTypeOK
  <2>3. Locked!ClientInv'
    BY <2>1 DEF Locked!ClientTypeOK, Locked!ClientInv, Locked!LoadIsFresh, Locked!LoopInv,
         Locked!MainInv
  <2>4. UNCHANGED Locked!Counter!vars
    BY <2>1 DEF Locked!ClientTypeOK, Locked!Counter!vars
  <2> QED
    BY <2>2, <2>3, <2>4 DEF Good
<1>3. CASE Locked!Report
  <2> USE <1>3 DEF Locked!Report
  <2>1. Locked!ClientTypeOK(LockPc)'
    BY DEF Locked!ClientTypeOK
  <2>2. Locked!ClientInv'
    BY DEF Locked!ClientTypeOK, Locked!ClientInv, Locked!LoadIsFresh, Locked!LoopInv,
         Locked!MainInv
  <2>3. \A t \in Locked!Threads : tpc[t] = "done" /\ iter[t] = LockIterations
    BY DEF Locked!ClientTypeOK, Locked!ClientInv, Locked!MainInv, Locked!LoopInv
  <2>4. Locked!Counter!Report
    BY <2>3 DEF Locked!ClientTypeOK, Locked!Counter!Report
  <2> QED
    BY <2>1, <2>2, <2>4 DEF Good, Locked!Counter!Next
<1> QED
  BY <1>1, <1>2, <1>3 DEF Locked!MainStep

\* A step that changes nothing of the client changes nothing of the counter.
LEMMA LockedStutterOK ==
  ASSUME Locked!ClientTypeOK(LockPc), Locked!ClientInv, UNCHANGED Locked!client
  PROVE  Good
  BY DEF Locked!client, Good, Locked!ClientTypeOK, Locked!ClientInv, Locked!LoadIsFresh,
     Locked!LoopInv, Locked!MainInv, Locked!Counter!vars, Locked!Threads

\* Every step of the sequentially consistent program is one of the atomic
\* counter's, or shows nothing there.
LEMMA ScCounts ==
  ASSUME PetersonInv, Locked!ClientTypeOK(LockPc), Locked!ClientInv,
         [Peterson!Sc!Next]_(Peterson!Sc!vars)
  PROVE  Good
PROOF
<1>1. LockPc \cap ClientNames = {}
  BY DEF LockPc, ClientNames
<1>2. Locked!MutualExclusion
  BY DEF PetersonInv, LockInv, InsideLock, Locked!MutualExclusion,
         Locked!InCriticalSection, Locked!Threads
<1>3. CASE Peterson!Sc!Main
  <2>1. Locked!MainStep
    BY <1>3 DEF Peterson!Sc!Main, Peterson!Sc!MainStep, Peterson!Sc!Create, Peterson!Sc!Join,
       Peterson!Sc!Report, Locked!MainStep, Locked!Create, Locked!Join, Locked!Report
  <2> QED
    BY <1>1, <2>1, LockedMainOK, LockedAssumption
<1>4. ASSUME NEW t \in Peterson!Sc!Threads, Peterson!Sc!Thread(t)
      PROVE  Good
  <2> USE DEF Peterson!Sc!LockStep, Peterson!Sc!Goto, Locked!LockStep, Locked!Goto
  <2>0. t \in Locked!Threads
    BY DEF Peterson!Sc!Threads, Locked!Threads
  <2>1. CASE Peterson!Sc!SetFlag(t)
    <3>1. Locked!LockStep(t, "lock", "set_turn")
      BY <2>1 DEF Peterson!Sc!SetFlag
    <3> QED
      BY <1>1, <2>0, <3>1, LockedStepOK, LockedAssumption DEF LockPc
  <2>2. CASE Peterson!Sc!SetTurn(t)
    <3>1. Locked!LockStep(t, "set_turn", "read_flag")
      BY <2>2 DEF Peterson!Sc!SetTurn
    <3> QED
      BY <1>1, <2>0, <3>1, LockedStepOK, LockedAssumption DEF LockPc
  <2>3. CASE Peterson!Sc!ReadFlag(t)
    <3>1. Locked!LockStep(t, "read_flag", "read_turn") \/ Locked!LockStep(t, "read_flag", "load")
      BY <2>3 DEF Peterson!Sc!ReadFlag
    <3> QED
      BY <1>1, <2>0, <3>1, LockedStepOK, LockedAssumption DEF LockPc
  <2>4. CASE Peterson!Sc!ReadTurn(t)
    <3>1. Locked!LockStep(t, "read_turn", "read_flag") \/ Locked!LockStep(t, "read_turn", "load")
      BY <2>4 DEF Peterson!Sc!ReadTurn
    <3> QED
      BY <1>1, <2>0, <3>1, LockedStepOK, LockedAssumption DEF LockPc
  <2>5. CASE Peterson!Sc!Load(t)
    <3>1. Locked!Load(t)
      BY <2>5 DEF Peterson!Sc!Load, Locked!Load
    <3> QED
      BY <1>1, <2>0, <3>1, LockedLoadOK, LockedAssumption
  <2>6. CASE Peterson!Sc!Store(t)
    <3>1. Locked!Store(t)
      BY <2>6 DEF Peterson!Sc!Store, Locked!Store
    <3> QED
      BY <1>1, <1>2, <2>0, <3>1, LockedStoreOK, LockedAssumption
  <2>7. CASE Peterson!Sc!Unlock(t)
    <3>1. Locked!EndIteration(t)
      BY <2>7 DEF Peterson!Sc!Unlock, Peterson!Sc!EndIteration, Locked!EndIteration
    <3> QED
      BY <1>1, <2>0, <3>1, LockedEndOK, LockedAssumption
  <2> QED
    BY <1>4, <2>1, <2>2, <2>3, <2>4, <2>5, <2>6, <2>7
    DEF Peterson!Sc!Thread, Peterson!Sc!ClientStep
<1>5. CASE UNCHANGED Peterson!Sc!vars
  <2>1. UNCHANGED Locked!client
    BY <1>5 DEF Peterson!Sc!vars, Peterson!Sc!client, Locked!client
  <2> QED
    BY <2>1, LockedStutterOK, LockedAssumption
<1> QED
  BY <1>3, <1>4, <1>5 DEF Peterson!Sc!Next, Peterson!Sc!Terminated

\* Whatever waits in a store buffer, shared_counter++ under peterson_lock is an
\* atomic increment, and main reports the value after the last one.
THEOREM PetersonCounts == Spec => CountsIncrements
PROOF
<1>1. Init => ClientOK /\ (program = "peterson" => Locked!Counter!Init)
  <2>1. Peterson!Sc!ClientInit => Locked!ClientInit
    BY DEF Peterson!Sc!ClientInit, Peterson!Sc!Threads, Locked!ClientInit, Locked!Threads
  <2> QED
    BY <2>1, InitOK, LockedInitOK, LockedAssumption DEF ScInit, Peterson!Sc!Init, ClientOK
<1>2. Inv /\ ClientOK /\ [Next]_vars
        => /\ Inv' /\ ClientOK'
           /\ program = "peterson" => [Locked!Counter!Next]_(Locked!Counter!vars)
  BY StepOK, ScCounts, SameProgram DEF Inv, ScStep, ClientOK, Good
<1> QED
  BY <1>1, <1>2, InitOK, PTL DEF Spec, CountsIncrements

-------------------------------------------------------------------------------
(* What the experiments report.  The two variants of the reordering         *)
(* experiment differ in StoreOwn; what follows names the definitions of     *)
(* Plain for both.                                                          *)

Pair == {1, 2}
Locs == {"x", "y", "r1", "r2"}
Own(t) == IF t = 1 THEN "x" ELSE "y"
Result(t) == IF t = 1 THEN "r1" ELSE "r2"
Partner(t) == 3 - t

Experiments == {"plain", "seq_cst"}

OwnStore(t) == [loc |-> Own(t), val |-> 1]
ResultStore(t, x) == [loc |-> Result(t), val |-> x]

\* What t has loaded, if its load has not overtaken its store.
Loaded(t) == IF buffer[t] = << >> THEN mem[Result(t)] ELSE buffer[t][1].val

ExperimentTypeOK ==
  /\ mem \in [Locs -> {0, 1}]
  /\ buffer \in [Pair -> Seq([loc : Locs, val : {0, 1}])]
  /\ pc \in [Pair -> {"none", "store", "load", "done"}]
  /\ overtook \in [Pair -> BOOLEAN]

\* How far a thread is, what of it waits in its buffer, and what is in memory.
Progress(t) ==
  \/ pc[t] \in {"none", "store"} /\ buffer[t] = << >> /\ mem[Own(t)] = 0
  \/ pc[t] \in {"load", "done"} /\ buffer[t] = << >> /\ mem[Own(t)] = 1
  \/ /\ pc[t] = "load" /\ program = "plain"
     /\ buffer[t] = <<OwnStore(t)>> /\ mem[Own(t)] = 0
  \/ /\ pc[t] = "done"
     /\ \E x \in {0, 1} : buffer[t] = <<ResultStore(t, x)>> /\ mem[Own(t)] = 1
  \/ /\ pc[t] = "done" /\ overtook[t]
     /\ \E x \in {0, 1} : buffer[t] = <<OwnStore(t), ResultStore(t, x)>> /\ mem[Own(t)] = 0

\* Of two loads that have not overtaken their stores one sees the other's.
OneSees ==
  (\A t \in Pair : pc[t] = "done" /\ ~overtook[t]) => \E t \in Pair : Loaded(t) = 1

Idle(t) == pc[t] \in {"none", "done"} /\ buffer[t] = << >>

\* What main knows of the threads.
MainKnows ==
  /\ mpc = "create1" => \A t \in Pair : pc[t] = "none"
  /\ mpc = "create2" => pc[2] = "none"
  /\ mpc \in {"join2", "check"} => pc[1] = "done" /\ buffer[1] = << >>
  /\ mpc = "check" => pc[2] = "done" /\ buffer[2] = << >>
  /\ mpc \in {"reset", "report", "done"} => \A t \in Pair : Idle(t)

Genuine ==
  /\ \A t \in Pair : overtook[t] => program = "plain"
  /\ detected => mpc \in {"report", "done"} /\ \E t \in Pair : overtook[t]

ExperimentInv ==
  /\ ExperimentTypeOK /\ OneSees /\ MainKnows /\ Genuine
  /\ \A t \in Pair : Progress(t)


\* The locations of one thread are not those of the other.
LEMMA Places ==
  /\ Plain!Threads = Pair /\ SeqCst!Threads = Pair
  /\ \A t \in Pair :
       /\ Plain!Own[t] = Own(t) /\ SeqCst!Own[t] = Own(t)
       /\ Plain!Others[t] = Own(Partner(t)) /\ Plain!Result[t] = Result(t)
       /\ Partner(t) \in Pair /\ Partner(t) # t /\ Partner(Partner(t)) = t
       /\ \A u \in Pair : u = t \/ u = Partner(t)
       /\ Own(t) \in {"x", "y"} /\ Own(Partner(t)) # Own(t)
       /\ Result(t) \in {"r1", "r2"} /\ Result(Partner(t)) # Result(t)
  BY DEF Plain!Threads, SeqCst!Threads, Plain!Own, SeqCst!Own, Plain!Others,
     Plain!Result, Pair, Own, Result, Partner

\* What is appended to one store is the second.
LEMMA AppendOne ==
  ASSUME NEW a, NEW b
  PROVE  Append(<<a>>, b) = <<a, b>>
PROOF
<1>1. <<a>> \in Seq({a, b}) /\ <<a, b>> \in Seq({a, b})
  OBVIOUS
<1>2. Append(<<a>>, b) \in Seq({a, b})
  BY <1>1
<1>3. Len(Append(<<a>>, b)) = 2
  BY <1>1
<1>4. Append(<<a>>, b)[1] = a
  BY <1>1
<1>5. Append(<<a>>, b)[2] = b
  BY <1>1
<1>6. Len(<<a, b>>) = 2 /\ <<a, b>>[1] = a /\ <<a, b>>[2] = b
  OBVIOUS
<1>7. \A k \in 1 .. Len(Append(<<a>>, b)) : Append(<<a>>, b)[k] = <<a, b>>[k]
  BY <1>3, <1>4, <1>5, <1>6
<1> QED
  BY <1>1, <1>2, <1>3, <1>6, <1>7, SeqEqual

\* Of one store or two the first goes first, and of one nothing is left.
LEMMA HeadOfFew ==
  \A a, b : Head(<<a>>) = a /\ Head(<<a, b>>) = a /\ Tail(<<a>>) = << >>
  OBVIOUS

\* What is left of two stores is the second.
LEMMA TailOfTwo ==
  ASSUME NEW a, NEW b
  PROVE  Tail(<<a, b>>) = <<b>>
PROOF
<1>1. <<a, b>> \in Seq({a, b}) /\ <<b>> \in Seq({a, b}) /\ <<a, b>> # << >>
  OBVIOUS
<1>2. Tail(<<a, b>>) \in Seq({a, b}) /\ Len(Tail(<<a, b>>)) = 1 /\ Len(<<b>>) = 1
  BY <1>1
<1>3. Tail(<<a, b>>)[1] = b /\ <<b>>[1] = b
  BY <1>1
<1>4. \A k \in 1 .. Len(Tail(<<a, b>>)) : Tail(<<a, b>>)[k] = <<b>>[k]
  BY <1>2, <1>3
<1> QED
  BY <1>1, <1>2, <1>4, SeqEqual

\* The steps of the two variants.
LEMMA ExperimentSteps ==
  ASSUME Experiment
  PROVE  /\ program \in Experiments /\ program' = program
         /\ \/ Plain!Reset \/ Plain!Check \/ Plain!Report
            \/ \E t \in Pair : Plain!Create(t) \/ Plain!Join(t) \/ Plain!LoadOther(t)
            \/ \E t \in Pair : Plain!MemoryStep(t)
            \/ \E t \in Pair : program = "plain" /\ Plain!StoreOwn(t)
            \/ \E t \in Pair : program = "seq_cst" /\ SeqCst!StoreOwn(t)
PROOF
<1>1. CASE OnlyExperiment("plain") /\ Plain!Next
  BY <1>1, Places DEF OnlyExperiment, Plain!Next, Plain!Main, Plain!Thread, Experiments
<1>2. CASE OnlyExperiment("seq_cst") /\ SeqCst!Next
  <2>1. /\ SeqCst!Reset => Plain!Reset
        /\ SeqCst!Check => Plain!Check
        /\ SeqCst!Report => Plain!Report
    BY DEF SeqCst!Reset, Plain!Reset, SeqCst!Check, Plain!Check, SeqCst!Report,
       Plain!Report, SeqCst!MainGoto, Plain!MainGoto, SeqCst!BothZero, Plain!BothZero,
       SeqCst!Threads, Plain!Threads, SeqCst!Locations, Plain!Locations,
       SeqCst!memory, Plain!memory
  <2>2. ASSUME NEW t \in Pair
        PROVE  /\ SeqCst!Create(t) => Plain!Create(t)
               /\ SeqCst!Join(t) => Plain!Join(t)
               /\ SeqCst!LoadOther(t) => Plain!LoadOther(t)
               /\ SeqCst!MemoryStep(t) => Plain!MemoryStep(t)
    BY DEF SeqCst!Create, Plain!Create, SeqCst!Join, Plain!Join, SeqCst!LoadOther,
       Plain!LoadOther, SeqCst!MemoryStep, Plain!MemoryStep, SeqCst!MainGoto,
       Plain!MainGoto, SeqCst!Write, Plain!Write, SeqCst!Read, Plain!Read,
       SeqCst!Pending, Plain!Pending, SeqCst!Flush, Plain!Flush, SeqCst!Own, Plain!Own,
       SeqCst!Others, Plain!Others, SeqCst!Result, Plain!Result, SeqCst!memory,
       Plain!memory
  <2> QED
    BY <1>2, <2>1, <2>2, Places
    DEF OnlyExperiment, SeqCst!Next, SeqCst!Main, SeqCst!Thread, Experiments
<1> QED
  BY <1>1, <1>2 DEF Experiment

\* A store.
LEMMA StoreOwnOK ==
  ASSUME ExperimentInv, program \in Experiments, program' = program, NEW t \in Pair,
         \/ program = "plain" /\ Plain!StoreOwn(t)
         \/ program = "seq_cst" /\ SeqCst!StoreOwn(t)
  PROVE  ExperimentInv'
PROOF
<1> DEFINE u == Partner(t)
<1>1. /\ pc[t] = "store" /\ pc' = [pc EXCEPT ![t] = "load"]
      /\ UNCHANGED <<mpc, round, detected, overtook>>
      /\ buffer[t] = << >> /\ mem[Own(t)] = 0
      /\ \/ /\ program = "plain" /\ UNCHANGED mem
            /\ buffer' = [buffer EXCEPT ![t] = <<OwnStore(t)>>]
         \/ mem' = [mem EXCEPT ![Own(t)] = 1] /\ UNCHANGED buffer

  <2>1. /\ pc[t] = "store" /\ pc' = [pc EXCEPT ![t] = "load"]
        /\ UNCHANGED <<mpc, round, detected, overtook>>
        /\ \/ /\ program = "plain" /\ UNCHANGED mem
              /\ buffer' = [buffer EXCEPT ![t] = Append(buffer[t], OwnStore(t))]
           \/ mem' = [mem EXCEPT ![Own(t)] = 1] /\ UNCHANGED buffer
    BY Places DEF Plain!StoreOwn, SeqCst!StoreOwn, Plain!Write, SeqCst!Exchange, OwnStore
  <2>2. buffer[t] = << >> /\ mem[Own(t)] = 0
    BY <2>1 DEF ExperimentInv, Progress
  <2>3. Append(<< >>, OwnStore(t)) = <<OwnStore(t)>>
    OBVIOUS
  <2> QED
    BY <2>1, <2>2, <2>3
<1>2. ExperimentTypeOK'
  <2>1. <<OwnStore(t)>> \in Seq([loc : Locs, val : {0, 1}])
    BY Places DEF OwnStore, Locs
  <2>2. buffer' \in [Pair -> Seq([loc : Locs, val : {0, 1}])]
    BY <1>1, <2>1 DEF ExperimentInv, ExperimentTypeOK
  <2>3. mem' \in [Locs -> {0, 1}]
    BY <1>1 DEF ExperimentInv, ExperimentTypeOK
  <2> QED
    BY <1>1, <2>2, <2>3 DEF ExperimentInv, ExperimentTypeOK
<1>3. Progress(t)'
  <2>1. pc'[t] = "load"
    BY <1>1 DEF ExperimentInv, ExperimentTypeOK
  <2>2. \/ program = "plain" /\ buffer'[t] = <<OwnStore(t)>> /\ mem'[Own(t)] = 0
        \/ buffer'[t] = << >> /\ mem'[Own(t)] = 1
    BY <1>1, Places, ZenonT(60) DEF ExperimentInv, ExperimentTypeOK, Locs
  <2> QED
    BY <2>1, <2>2 DEF Progress, OwnStore, Own
<1>4. Progress(u)'
  BY <1>1, Places DEF ExperimentInv, ExperimentTypeOK, Progress, OwnStore,
     ResultStore, Locs
<1>5. OneSees'
  BY <1>1, Places DEF ExperimentInv, ExperimentTypeOK, OneSees
<1>6. MainKnows' /\ Genuine'
  BY <1>1, Places DEF ExperimentInv, ExperimentTypeOK, MainKnows, Genuine, Idle, Pair
<1> QED
  BY <1>2, <1>3, <1>4, <1>5, <1>6, Places DEF ExperimentInv

\* A load: it overtakes the store if that is in the buffer, and otherwise finds
\* what the other thread has in memory.
LEMMA LoadOtherOK ==
  ASSUME ExperimentInv, program \in Experiments, program' = program, NEW t \in Pair,
         Plain!LoadOther(t)
  PROVE  ExperimentInv'
PROOF
<1> DEFINE u == Partner(t)
           x == mem[Own(u)]
<1>1. /\ pc[t] = "load" /\ pc' = [pc EXCEPT ![t] = "done"]
      /\ UNCHANGED <<mpc, round, detected, mem>>
      /\ buffer' = [buffer EXCEPT ![t] = Append(@, ResultStore(t, Plain!Read(t, Own(u))))]
      /\ overtook' = [overtook EXCEPT ![t] = Plain!Pending(t, Own(t)) # {}]
  BY Places DEF Plain!LoadOther, Plain!Write, ResultStore
<1>2. x \in {0, 1}
  BY Places DEF ExperimentInv, ExperimentTypeOK, Locs
<1>3. CASE buffer[t] = << >> /\ mem[Own(t)] = 1
  <2>1. Plain!Pending(t, Own(t)) = {} /\ Plain!Pending(t, Own(u)) = {}
    BY <1>3 DEF Plain!Pending
  <2>2. /\ buffer' = [buffer EXCEPT ![t] = <<ResultStore(t, x)>>]
        /\ overtook' = [overtook EXCEPT ![t] = FALSE]

    <3>1. Append(<< >>, ResultStore(t, x)) = <<ResultStore(t, x)>>
      OBVIOUS
    <3>2. Plain!Read(t, Own(u)) = x
      BY <2>1 DEF Plain!Read
    <3> QED
      BY <1>1, <1>3, <2>1, <3>1, <3>2
  <2>3. ExperimentTypeOK'
    BY <1>1, <1>2, <2>2, Places DEF ExperimentInv, ExperimentTypeOK, ResultStore, Locs
  <2>4. Progress(t)'
    BY <1>1, <1>2, <1>3, <2>2, Places DEF ExperimentInv, ExperimentTypeOK, Progress
  <2>5. Progress(u)'
    BY <1>1, <2>2, Places DEF ExperimentInv, ExperimentTypeOK, Progress,
       OwnStore, ResultStore
  <2>6. OneSees'
    <3>1. SUFFICES ASSUME pc'[u] = "done", ~overtook'[u]
                   PROVE  Loaded(t)' = 1
      BY Places DEF OneSees
    <3>2. pc[u] = "done" /\ ~overtook[u]
      BY <1>1, <2>2, <3>1, Places DEF ExperimentInv, ExperimentTypeOK
    <3>3. x = 1
      BY <3>2, Places DEF ExperimentInv, Progress
    <3> QED
      BY <2>2, <3>3 DEF Loaded, ExperimentInv, ExperimentTypeOK, ResultStore
  <2>7. MainKnows' /\ Genuine'
    BY <1>1, <2>2, Places DEF ExperimentInv, ExperimentTypeOK, MainKnows, Genuine,
       Idle, Pair
  <2> QED
    BY <2>3, <2>4, <2>5, <2>6, <2>7, Places DEF ExperimentInv
<1>4. CASE program = "plain" /\ buffer[t] = <<OwnStore(t)>> /\ mem[Own(t)] = 0
  <2>1. Plain!Pending(t, Own(t)) = {1} /\ Plain!Pending(t, Own(u)) = {}
    BY <1>4, Places DEF Plain!Pending, OwnStore
  <2>2. /\ buffer' = [buffer EXCEPT ![t] = <<OwnStore(t), ResultStore(t, x)>>]
        /\ overtook' = [overtook EXCEPT ![t] = TRUE]

    <3>1. Append(<<OwnStore(t)>>, ResultStore(t, x)) = <<OwnStore(t), ResultStore(t, x)>>
      BY AppendOne
    <3>2. Plain!Read(t, Own(u)) = x
      BY <2>1 DEF Plain!Read
    <3> QED
      BY <1>1, <1>4, <2>1, <3>1, <3>2
  <2>3. ExperimentTypeOK'
    BY <1>1, <1>2, <2>2, Places DEF ExperimentInv, ExperimentTypeOK, OwnStore,
       ResultStore, Locs
  <2>4. Progress(t)'
    <3>1. /\ pc'[t] = "done" /\ overtook'[t] /\ mem'[Own(t)] = 0
          /\ buffer'[t] = <<OwnStore(t), ResultStore(t, x)>>
      BY <1>1, <1>4, <2>2 DEF ExperimentInv, ExperimentTypeOK
    <3> QED
      BY <1>2, <3>1 DEF Progress, OwnStore, ResultStore, Own, Result
  <2>5. Progress(u)'
    BY <1>1, <2>2, Places DEF ExperimentInv, ExperimentTypeOK, Progress,
       OwnStore, ResultStore
  <2>6. OneSees'
    BY <2>2, Places DEF OneSees, ExperimentInv, ExperimentTypeOK
  <2>7. MainKnows' /\ Genuine'
    BY <1>1, <1>4, <2>2, Places, SMTT(30) DEF ExperimentInv, ExperimentTypeOK, MainKnows,
       Genuine, Idle, Pair
  <2> QED
    BY <2>3, <2>4, <2>5, <2>6, <2>7, Places DEF ExperimentInv
<1> QED
  BY <1>1, <1>3, <1>4 DEF ExperimentInv, Progress

\* A store reaches memory: what a thread has loaded stays the same.
LEMMA ExperimentFlushOK ==
  ASSUME ExperimentInv, program \in Experiments, program' = program, NEW t \in Pair,
         Plain!MemoryStep(t)
  PROVE  ExperimentInv'
PROOF
<1> DEFINE u == Partner(t)
           s == Head(buffer[t])
<1>0. mem \in [Locs -> {0, 1}] /\ buffer \in [Pair -> Seq([loc : Locs, val : {0, 1}])]
  BY DEF ExperimentInv, ExperimentTypeOK
<1>1. /\ buffer[t] # << >>
      /\ mem' = [mem EXCEPT ![s.loc] = s.val]
      /\ buffer' = [buffer EXCEPT ![t] = Tail(@)]
      /\ UNCHANGED <<pc, mpc, round, detected, overtook>>
  BY DEF Plain!MemoryStep, Plain!Flush
<1>2. ExperimentTypeOK'
  <2>1. s \in [loc : Locs, val : {0, 1}] /\ Tail(buffer[t]) \in Seq([loc : Locs, val : {0, 1}])
    <3>1. buffer[t] \in Seq([loc : Locs, val : {0, 1}])
      BY DEF ExperimentInv, ExperimentTypeOK
    <3> QED
      BY <1>1, <3>1, HeadTailProperties
  <2>2. s.loc \in Locs /\ s.val \in {0, 1}
    BY <2>1
  <2> QED
    BY <1>1, <2>1, <2>2 DEF ExperimentInv, ExperimentTypeOK
<1>3. s.loc \in {Own(t), Result(t)}
  <2>1. OwnStore(t).loc = Own(t) /\ \A x \in {0, 1} : ResultStore(t, x).loc = Result(t)
    BY DEF OwnStore, ResultStore
  <2>2. s = OwnStore(t) \/ \E x \in {0, 1} : s = ResultStore(t, x)
    BY <1>1, HeadOfFew DEF ExperimentInv, Progress
  <2> QED
    BY <2>1, <2>2
<1>4. Progress(u)'
  <2>1. mem'[Own(u)] = mem[Own(u)] /\ buffer'[u] = buffer[u]
    BY <1>1, <1>3, Places DEF ExperimentInv, ExperimentTypeOK, Locs
  <2> QED
    BY <1>1, <2>1, Places DEF ExperimentInv, Progress, OwnStore, ResultStore
<1>5. Loaded(u)' = Loaded(u)
  BY <1>1, <1>3, Places DEF ExperimentInv, ExperimentTypeOK, Loaded, Locs
<1>6. MainKnows' /\ Genuine'
  BY <1>1, Places DEF ExperimentInv, ExperimentTypeOK, MainKnows, Genuine, Idle, Pair
<1>7. CASE /\ pc[t] = "load" /\ program = "plain"
           /\ buffer[t] = <<OwnStore(t)>> /\ mem[Own(t)] = 0
  <2>1. mem'[Own(t)] = 1 /\ buffer'[t] = << >>
    <3>1. s.loc = Own(t) /\ s.val = 1 /\ Tail(buffer[t]) = << >>
      BY <1>7, HeadOfFew DEF OwnStore
    <3>2. mem' = [mem EXCEPT ![Own(t)] = 1] /\ buffer' = [buffer EXCEPT ![t] = << >>]
      BY <1>1, <3>1
    <3> QED
      BY <3>2, <1>0, Places DEF Locs
  <2>2. Progress(t)'
    BY <1>1, <1>7, <2>1 DEF Progress
  <2>3. OneSees'
    BY <1>1, <1>7, Places DEF OneSees
  <2> QED
    BY <1>2, <1>4, <1>6, <2>2, <2>3, Places DEF ExperimentInv
<1>8. ASSUME NEW x \in {0, 1}, pc[t] = "done",
             buffer[t] = <<ResultStore(t, x)>>, mem[Own(t)] = 1
      PROVE  ExperimentInv'
  <2>1. /\ mem'[Own(t)] = 1 /\ buffer'[t] = << >>
        /\ Loaded(t) = x /\ Loaded(t)' = x
    <3>1. s.loc = Result(t) /\ s.val = x /\ Tail(buffer[t]) = << >>
      BY <1>8, HeadOfFew DEF ResultStore
    <3>2. mem' = [mem EXCEPT ![Result(t)] = x] /\ buffer' = [buffer EXCEPT ![t] = << >>]
      BY <1>1, <3>1
    <3>3. mem'[Own(t)] = 1 /\ mem'[Result(t)] = x /\ buffer'[t] = << >>
      BY <1>8, <3>2, <1>0, Places DEF Locs
    <3>4. Loaded(t) = x
      BY <1>8 DEF Loaded, ResultStore
    <3>5. Loaded(t)' = x
      BY <3>3 DEF Loaded
    <3> QED
      BY <3>3, <3>4, <3>5
  <2>2. Progress(t)'
    BY <1>1, <1>8, <2>1 DEF Progress
  <2>3. OneSees'
    BY <1>1, <1>5, <2>1, Places DEF ExperimentInv, OneSees
  <2> QED
    BY <1>2, <1>4, <1>6, <2>2, <2>3, Places DEF ExperimentInv
<1>9. ASSUME NEW x \in {0, 1}, pc[t] = "done", overtook[t],
             buffer[t] = <<OwnStore(t), ResultStore(t, x)>>, mem[Own(t)] = 0
      PROVE  ExperimentInv'
  <2>1. Tail(<<OwnStore(t), ResultStore(t, x)>>) = <<ResultStore(t, x)>>
    BY TailOfTwo
  <2>2. mem'[Own(t)] = 1 /\ buffer'[t] = <<ResultStore(t, x)>>
    <3>1. s.loc = Own(t) /\ s.val = 1
      BY <1>9, HeadOfFew DEF OwnStore
    <3>2. /\ mem' = [mem EXCEPT ![Own(t)] = 1]
          /\ buffer' = [buffer EXCEPT ![t] = <<ResultStore(t, x)>>]
      BY <1>1, <1>9, <2>1, <3>1
    <3> QED
      BY <3>2, <1>0, Places DEF Locs
  <2>3. Progress(t)'
    BY <1>1, <1>9, <2>2 DEF Progress, ResultStore, Result
  <2>4. OneSees'
    BY <1>1, <1>9 DEF OneSees
  <2> QED
    BY <1>2, <1>4, <1>6, <2>3, <2>4, Places DEF ExperimentInv
<1> QED
  BY <1>1, <1>7, <1>8, <1>9 DEF ExperimentInv, Progress

\* main resets memory and the threads when nothing is in the buffers, creates and
\* joins the threads, and believes what it reads when both have ended.
LEMMA ExperimentMainOK ==
  ASSUME ExperimentInv, program \in Experiments, program' = program,
         \/ Plain!Reset \/ Plain!Check \/ Plain!Report
         \/ \E t \in Pair : Plain!Create(t) \/ Plain!Join(t)
  PROVE  ExperimentInv'
PROOF
<1>1. CASE Plain!Reset
  <2>1. /\ mpc = "reset" /\ mpc' = "create1"
        /\ mem' = [l \in Locs |-> 0] /\ pc' = [t \in Pair |-> "none"]
        /\ overtook' = [t \in Pair |-> FALSE]
        /\ UNCHANGED <<buffer, round, detected>>
    BY <1>1, Places DEF Plain!Reset, Plain!MainGoto, Plain!Locations, Locs
  <2>2. \A t \in Pair : buffer'[t] = << >>
    BY <2>1 DEF ExperimentInv, MainKnows, Idle
  <2>3. ExperimentTypeOK'
    BY <2>1 DEF ExperimentInv, ExperimentTypeOK
  <2>4. \A t \in Pair : Progress(t)'
    BY <2>1, <2>2, Places DEF Progress, Locs
  <2>5. OneSees' /\ MainKnows' /\ Genuine'
    BY <2>1 DEF ExperimentInv, OneSees, MainKnows, Genuine, Pair
  <2> QED
    BY <2>3, <2>4, <2>5 DEF ExperimentInv
<1>2. CASE Plain!Check
  <2>1. /\ mpc = "check" /\ mpc' \in {"report", "reset"}
        /\ detected' = (mem["r1"] = 0 /\ mem["r2"] = 0)
        /\ detected' => mpc' = "report"
        /\ UNCHANGED <<memory, pc, overtook>>
    BY <1>2 DEF Plain!Check, Plain!MainGoto, Plain!BothZero, memory, Plain!memory
  <2>2. \A t \in Pair : pc[t] = "done" /\ buffer[t] = << >> /\ Loaded(t) = mem[Result(t)]
    BY <2>1 DEF ExperimentInv, MainKnows, Pair, Loaded
  <2>3. detected' => \E t \in Pair : overtook[t]
    <3>1. SUFFICES ASSUME mem["r1"] = 0, mem["r2"] = 0
                   PROVE  \E t \in Pair : overtook[t]
      BY <2>1
    <3>2. \A t \in Pair : Loaded(t) = 0
      BY <2>2, <3>1 DEF Result, Pair
    <3> QED
      BY <2>2, <3>2 DEF ExperimentInv, OneSees
  <2>4. MainKnows' /\ Genuine'
    BY <2>1, <2>2, <2>3 DEF ExperimentInv, MainKnows, Genuine, Idle, memory
  <2> QED
    BY <2>1, <2>4, ZenonT(60) DEF ExperimentInv, ExperimentTypeOK, Progress, OneSees, Loaded, memory,
       OwnStore, ResultStore
<1>3. CASE Plain!Report
  <2>1. mpc = "report" /\ mpc' = "done" /\ UNCHANGED <<memory, pc, round, detected, overtook>>
    BY <1>3 DEF Plain!Report, Plain!MainGoto, memory, Plain!memory
  <2>2. MainKnows' /\ Genuine'
    BY <2>1 DEF ExperimentInv, MainKnows, Genuine, Idle, memory
  <2> QED
    BY <2>1, <2>2, ZenonT(60) DEF ExperimentInv, ExperimentTypeOK, Progress, OneSees, Loaded, memory,
       OwnStore, ResultStore
<1>4. ASSUME NEW t \in Pair, Plain!Create(t)
      PROVE  ExperimentInv'
  <2>1. /\ \/ t = 1 /\ mpc = "create1" /\ mpc' = "create2"
           \/ t = 2 /\ mpc = "create2" /\ mpc' = "join1"
        /\ pc' = [pc EXCEPT ![t] = "store"]
        /\ UNCHANGED <<memory, round, detected, overtook>>
    BY <1>4 DEF Plain!Create, Plain!MainGoto, memory, Plain!memory, Pair
  <2>2. pc[t] = "none"
    BY <2>1 DEF ExperimentInv, MainKnows
  <2>3. ExperimentTypeOK'
    BY <2>1 DEF ExperimentInv, ExperimentTypeOK, memory
  <2>4. ASSUME NEW u \in Pair
        PROVE  Progress(u)'
    BY <2>1, <2>2 DEF ExperimentInv, ExperimentTypeOK, Progress, memory, OwnStore, ResultStore
  <2>5. OneSees' /\ MainKnows' /\ Genuine'
    BY <2>1, <2>2 DEF ExperimentInv, ExperimentTypeOK, OneSees, MainKnows, Genuine,
       Loaded, Pair, memory
  <2> QED
    BY <2>3, <2>4, <2>5 DEF ExperimentInv
<1>5. ASSUME NEW t \in Pair, Plain!Join(t)
      PROVE  ExperimentInv'
  <2>1. /\ \/ t = 1 /\ mpc = "join1" /\ mpc' = "join2"
           \/ t = 2 /\ mpc = "join2" /\ mpc' = "check"
        /\ pc[t] = "done" /\ buffer[t] = << >>
        /\ UNCHANGED <<memory, pc, round, detected, overtook>>
    BY <1>5 DEF Plain!Join, Plain!MainGoto, memory, Plain!memory, Pair
  <2>2. MainKnows' /\ Genuine'
    BY <2>1 DEF ExperimentInv, MainKnows, Genuine, Idle, memory
  <2>3. ExperimentTypeOK' /\ OneSees'
    BY <2>1 DEF ExperimentInv, ExperimentTypeOK, OneSees, Loaded, memory
  <2>4. \A u \in Pair : Progress(u)'
    BY <2>1 DEF ExperimentInv, Progress, memory
  <2> QED
    BY <2>2, <2>3, <2>4 DEF ExperimentInv
<1> QED
  BY <1>1, <1>2, <1>3, <1>4, <1>5

\* Every step of the experiments keeps the invariant.
LEMMA ExperimentOK == ExperimentInv /\ Experiment => ExperimentInv'
  BY ExperimentSteps, StoreOwnOK, LoadOtherOK, ExperimentFlushOK, ExperimentMainOK

-------------------------------------------------------------------------------
(* The value in one cache line, or in two                                   *)

Values == {"0", "a", "b"}

\* The reader's buffer is empty, and the writer's has what it stores.
MemoryOfValue(parts) ==
  /\ mem \in [parts -> Values]
  /\ buffer \in [{"writer", "reader"} -> Seq([loc : parts, val : Values])]
  /\ buffer["reader"] = << >>
  /\ next \in {"a", "b"} /\ left \subseteq parts

\* In one cache line: what the reader has read is a whole value, and called torn
\* only if it is the first one.
AlignedInv ==
  /\ MemoryOfValue({"line"}) /\ mixed = FALSE
  /\ DOMAIN got \subseteq {"line"} /\ \A l \in DOMAIN got : got[l] \in Values
  /\ got = [l \in DOMAIN got |-> got[l]]
  /\ torn => v = [l \in {"line"} |-> "0"]

Halves == {"line", "next line"}

\* In two: while the memory that the reader has met since it began is not mixed,
\* it is one value, and the reader has read it.
StraddlingInv ==
  /\ MemoryOfValue(Halves)
  /\ DOMAIN got \subseteq Halves /\ got = [l \in DOMAIN got |-> got[l]]
  /\ DOMAIN got # {} /\ ~mixed =>
       mem["line"] = mem["next line"] /\ \A l \in DOMAIN got : got[l] = mem[l]
  /\ torn /\ DOMAIN got = {} => mixed \/ v = [l \in Halves |-> "0"]

\* Nothing is read yet.
LEMMA NothingRead ==
  DOMAIN << >> = {} /\ << >> = [l \in DOMAIN << >> |-> << >>[l]]
  OBVIOUS

\* A load of the reader, which has stored nothing, reads memory.
LEMMA ReaderReadsMemory ==
  ASSUME buffer["reader"] = << >>, NEW l
  PROVE  Aligned!Read("reader", l) = mem[l] /\ Straddling!Read("reader", l) = mem[l]
PROOF
<1>1. Aligned!Pending("reader", l) = {} /\ Straddling!Pending("reader", l) = {}
  BY DEF Aligned!Pending, Straddling!Pending
<1> QED
  BY <1>1 DEF Aligned!Read, Straddling!Read

\* The writer's store goes to its buffer,
LEMMA WriterStores ==
  ASSUME NEW parts, MemoryOfValue(parts), NEW l \in parts, Write("writer", l, next),
         next' \in {"a", "b"}, left' \subseteq parts
  PROVE  MemoryOfValue(parts)'
PROOF
<1>1. [loc |-> l, val |-> next] \in [loc : parts, val : Values]
  BY DEF MemoryOfValue, Values
<1>2. Append(buffer["writer"], [loc |-> l, val |-> next]) \in Seq([loc : parts, val : Values])
  BY <1>1 DEF MemoryOfValue
<1> QED
  BY <1>2 DEF MemoryOfValue, Write

\* and from there to one place in memory.
LEMMA WriterFlushes ==
  ASSUME NEW parts, MemoryOfValue(parts), Flush("writer"), UNCHANGED <<next, left>>
  PROVE  /\ MemoryOfValue(parts)'
         /\ \E l \in parts : \A k \in parts : k # l => mem'[k] = mem[k]
PROOF
<1>1. /\ Head(buffer["writer"]) \in [loc : parts, val : Values]
      /\ Tail(buffer["writer"]) \in Seq([loc : parts, val : Values])
  BY HeadTailProperties DEF MemoryOfValue, Flush
<1>2. Head(buffer["writer"]).loc \in parts /\ Head(buffer["writer"]).val \in Values
  BY <1>1
<1> QED
  BY <1>1, <1>2 DEF MemoryOfValue, Flush

\* A step of cpu_atomic.c keeps its invariant.
LEMMA AlignedOK == AlignedInv /\ Aligned!Step => AlignedInv'
PROOF
<1> SUFFICES ASSUME AlignedInv, Aligned!Step
             PROVE  AlignedInv'
  OBVIOUS
<1>1. CASE Aligned!StorePart
  <2>1. PICK l \in {"line"} : Write("writer", l, next)
    BY <1>1 DEF Aligned!StorePart, Aligned!Write, Write, AlignedInv, MemoryOfValue
  <2>2. /\ next' \in {"a", "b"} /\ left' \subseteq {"line"}
        /\ UNCHANGED <<got, mixed, v, torn>>
    BY <1>1 DEF Aligned!StorePart, AlignedInv, MemoryOfValue
  <2>3. MemoryOfValue({"line"})'
    BY <2>1, <2>2, WriterStores DEF AlignedInv
  <2> QED
    BY <2>2, <2>3 DEF AlignedInv
<1>2. CASE Aligned!LoadPart
  <2>1. PICK l \in {"line"} \ DOMAIN got :
          got' = [k \in DOMAIN got \cup {l} |->
                    IF k = l THEN Aligned!Read("reader", l) ELSE got[k]]
    BY <1>2 DEF Aligned!LoadPart
  <2>2. mixed' = FALSE /\ UNCHANGED <<memory, next, left, v, torn>>
    BY <1>2 DEF Aligned!LoadPart, AlignedInv, Aligned!Mixed, memory, Aligned!memory
  <2>3. Aligned!Read("reader", l) \in Values
    BY ReaderReadsMemory DEF AlignedInv, MemoryOfValue
  <2>4. MemoryOfValue({"line"})'
    BY <2>2 DEF AlignedInv, MemoryOfValue, memory
  <2> QED
    BY <2>1, <2>2, <2>3, <2>4 DEF AlignedInv
<1>3. CASE Aligned!Judge
  <2>1. /\ DOMAIN got = {"line"} /\ v' = got
        /\ torn' = (got \notin {[l \in {"line"} |-> "a"], [l \in {"line"} |-> "b"]})
        /\ got' = << >> /\ UNCHANGED <<memory, next, left, mixed>>
    BY <1>3 DEF Aligned!Judge, Aligned!Whole, memory, Aligned!memory
  <2>2. got = [l \in {"line"} |-> got["line"]] /\ got["line"] \in {"0", "a", "b"}
    BY <2>1 DEF AlignedInv, Values
  <2>3. MemoryOfValue({"line"})'
    BY <2>1 DEF AlignedInv, MemoryOfValue, memory
  <2>4. torn' => v' = [l \in {"line"} |-> "0"]
    BY <2>1, <2>2
  <2> QED
    BY <2>1, <2>3, <2>4, NothingRead DEF AlignedInv
<1>4. CASE Aligned!MemoryStep
  <2>1. Flush("writer") /\ UNCHANGED <<next, left, got, v, torn>>
    BY <1>4 DEF Aligned!MemoryStep, Aligned!Flush, Flush
  <2>2. mixed' = FALSE
    BY <1>4 DEF Aligned!MemoryStep, Aligned!Mixed, AlignedInv
  <2>3. MemoryOfValue({"line"})'
    BY <2>1, WriterFlushes DEF AlignedInv
  <2> QED
    BY <2>1, <2>2, <2>3 DEF AlignedInv
<1> QED
  BY <1>1, <1>2, <1>3, <1>4 DEF Aligned!Step

\* A step of cpu_non_atomic.c keeps its invariant.
LEMMA StraddlingOK == StraddlingInv /\ Straddling!Step => StraddlingInv'
PROOF
<1> SUFFICES ASSUME StraddlingInv, Straddling!Step
             PROVE  StraddlingInv'
  OBVIOUS
<1>1. CASE Straddling!StorePart
  <2>1. PICK l \in Halves : Write("writer", l, next)
    BY <1>1 DEF Straddling!StorePart, Straddling!Write, Write, StraddlingInv, MemoryOfValue
  <2>2. /\ next' \in {"a", "b"} /\ left' \subseteq Halves
        /\ UNCHANGED <<got, mixed, v, torn>>
    BY <1>1 DEF Straddling!StorePart, StraddlingInv, MemoryOfValue, Halves
  <2>3. MemoryOfValue(Halves)'
    BY <2>1, <2>2, WriterStores DEF StraddlingInv
  <2> QED
    BY <2>1, <2>2, <2>3 DEF StraddlingInv, Write
<1>2. CASE Straddling!LoadPart
  <2>1. PICK l \in Halves \ DOMAIN got :
          /\ got' = [k \in DOMAIN got \cup {l} |->
                       IF k = l THEN Straddling!Read("reader", l) ELSE got[k]]
          /\ mixed' = IF DOMAIN got = {} THEN Straddling!Mixed(mem) ELSE mixed
          /\ UNCHANGED <<memory, next, left, v, torn>>
    BY <1>2 DEF Straddling!LoadPart, Halves, memory, Straddling!memory
  <2>2. Straddling!Read("reader", l) = mem[l]
    BY ReaderReadsMemory DEF StraddlingInv, MemoryOfValue
  <2>3. MemoryOfValue(Halves)'
    BY <2>1 DEF StraddlingInv, MemoryOfValue, memory
  <2>4. DOMAIN got' = DOMAIN got \cup {l} /\ got' = [k \in DOMAIN got' |-> got'[k]]
    BY <2>1
  <2>5. ~mixed' => mem["line"] = mem["next line"] /\ \A k \in DOMAIN got : got[k] = mem[k]
    BY <2>1 DEF Straddling!Mixed, StraddlingInv
  <2>6. ~mixed' => \A k \in DOMAIN got' : got'[k] = mem'[k]
    BY <2>1, <2>2, <2>5 DEF memory
  <2> QED
    BY <2>1, <2>3, <2>4, <2>5, <2>6 DEF StraddlingInv, memory
<1>3. CASE Straddling!Judge
  <2>1. /\ DOMAIN got = Halves /\ v' = got
        /\ torn' = (got \notin {[l \in Halves |-> "a"], [l \in Halves |-> "b"]})
        /\ got' = << >> /\ UNCHANGED <<memory, next, left, mixed>>
    BY <1>3 DEF Straddling!Judge, Straddling!Whole, memory, Straddling!memory, Halves
  <2>2. MemoryOfValue(Halves)'
    BY <2>1 DEF StraddlingInv, MemoryOfValue, memory
  <2>3. ASSUME torn', ~mixed'
        PROVE  v' = [l \in Halves |-> "0"]
    <3>1. PICK x \in Values : \A l \in Halves : got[l] = x
      BY <2>1, <2>3 DEF StraddlingInv, MemoryOfValue, Halves
    <3>2. got = [l \in Halves |-> x]
      BY <2>1, <3>1 DEF StraddlingInv
    <3>3. got # [l \in Halves |-> "a"] /\ got # [l \in Halves |-> "b"]
      BY <2>1, <2>3
    <3>4. x = "0"
      BY <3>2, <3>3 DEF Values
    <3> QED
      BY <2>1, <3>2, <3>4
  <2> QED
    BY <2>1, <2>2, <2>3, NothingRead DEF StraddlingInv
<1>4. CASE Straddling!MemoryStep
  <2>1. /\ Flush("writer") /\ UNCHANGED <<next, left, got, v, torn>>
        /\ mixed' = (mixed \/ Straddling!Mixed(mem'))
    BY <1>4 DEF Straddling!MemoryStep, Straddling!Flush, Flush
  <2>2. MemoryOfValue(Halves)'
    BY <2>1, WriterFlushes DEF StraddlingInv
  <2>3. PICK l \in Halves : \A k \in Halves : k # l => mem'[k] = mem[k]
    BY <2>1, WriterFlushes DEF StraddlingInv
  <2>4. ~mixed' => ~mixed /\ mem'["line"] = mem'["next line"]
    BY <2>1 DEF Straddling!Mixed
  <2>5. ASSUME DOMAIN got # {}, ~mixed'
        PROVE  \A k \in Halves : mem'[k] = mem[k]
    BY <2>3, <2>4, <2>5 DEF StraddlingInv, Halves
  <2> QED
    BY <2>1, <2>2, <2>4, <2>5 DEF StraddlingInv
<1> QED
  BY <1>1, <1>2, <1>3, <1>4 DEF Straddling!Step

-------------------------------------------------------------------------------

\* The invariant of each experiment, which the other programs leave alone.
ReportInv ==
  /\ program \in Experiments => ExperimentInv
  /\ program = "cpu_atomic" => AlignedInv
  /\ program = "cpu_non_atomic" => StraddlingInv
  /\ program \notin Experiments => detected = FALSE

\* It holds initially.
LEMMA ReportInit == Init => ReportInv
PROOF
<1> SUFFICES ASSUME Init
             PROVE  ReportInv
  OBVIOUS
<1>1. ASSUME program \in Experiments
      PROVE  ExperimentInv
  <2>1. Plain!MemoryInit /\ Plain!OwnInit
    BY <1>1 DEF Init, Experiments
  <2>2. ExperimentTypeOK /\ MainKnows /\ Genuine
    BY <2>1, Places DEF Plain!MemoryInit, Plain!OwnInit, Plain!Locations, Locs,
       ExperimentTypeOK, MainKnows, Genuine, Idle, Pair
  <2>3. OneSees /\ \A t \in Pair : Progress(t)
    BY <2>1, Places DEF Plain!MemoryInit, Plain!OwnInit, Plain!Locations, OneSees,
       Progress, Pair
  <2> QED
    BY <2>2, <2>3 DEF ExperimentInv
<1>2. ASSUME program = "cpu_atomic"
      PROVE  AlignedInv
  <2>1. Aligned!MemoryInit /\ Aligned!OwnInit
    BY <1>2 DEF Init
  <2> QED
    BY <2>1, NothingRead DEF Aligned!MemoryInit, Aligned!OwnInit, Aligned!Whole,
       Aligned!Threads, AlignedInv, MemoryOfValue, Values
<1>3. ASSUME program = "cpu_non_atomic"
      PROVE  StraddlingInv
  <2>1. Straddling!MemoryInit /\ Straddling!OwnInit
    BY <1>3 DEF Init
  <2>2. MemoryOfValue(Halves)
    <3>1. mem \in [Halves -> Values]
      BY <2>1 DEF Straddling!MemoryInit, Straddling!Whole, Values, Halves
    <3>2. buffer = [t \in {"writer", "reader"} |-> << >>]
      BY <2>1 DEF Straddling!MemoryInit, Straddling!Threads
    <3>3. next = "a" /\ left = Halves
      BY <2>1 DEF Straddling!OwnInit, Halves
    <3> QED
      BY <3>1, <3>2, <3>3 DEF MemoryOfValue
  <2>3. got = << >> /\ torn = FALSE
    BY <2>1 DEF Straddling!OwnInit
  <2>4. DOMAIN got = {} /\ got = [l \in DOMAIN got |-> got[l]]
    BY <2>3, NothingRead
  <2> QED
    BY <2>2, <2>3, <2>4 DEF StraddlingInv
<1>4. detected = FALSE
  BY DEF Init, Plain!OwnInit
<1> QED
  BY <1>1, <1>2, <1>3, <1>4 DEF ReportInv

\* Every step keeps it.
LEMMA ReportStep == ReportInv /\ [Next]_vars => ReportInv'
PROOF
<1> SUFFICES ASSUME ReportInv, [Next]_vars
             PROVE  ReportInv'
  OBVIOUS
<1>1. CASE Experiment
  <2>1. program \in Experiments /\ program' = program
    BY <1>1, ExperimentSteps
  <2> QED
    BY <1>1, <2>1, ExperimentOK DEF ReportInv, Experiments
<1>2. CASE CpuAtomic
  <2>1. program = "cpu_atomic" /\ Aligned!Step /\ UNCHANGED <<program, detected>>
    BY <1>2 DEF CpuAtomic, OnlyReading, experiment
  <2> QED
    BY <2>1, AlignedOK DEF ReportInv, Experiments
<1>3. CASE CpuNonAtomic
  <2>1. program = "cpu_non_atomic" /\ Straddling!Step /\ UNCHANGED <<program, detected>>
    BY <1>3 DEF CpuNonAtomic, OnlyReading, experiment
  <2> QED
    BY <2>1, StraddlingOK DEF ReportInv, Experiments
<1>4. CASE \/ Server \/ Client \/ \E p \in Shm!Procs : ShmMemory(p)
           \/ LockMain \/ \E t \in Peterson!Threads : LockThread(t) \/ LockMemory(t)
  <2>1. program \in {"shmem", "peterson"} /\ UNCHANGED <<program, detected>>
    BY <1>4 DEF Server, Client, ShmMemory, OnlyHandshake, LockMain, LockThread,
       LockMemory, OnlyLocked, experiment
  <2> QED
    BY <2>1 DEF ReportInv, Experiments
<1>5. CASE UNCHANGED vars
  <2>1. UNCHANGED <<program, memory, experiment, reading>>
    BY <1>5 DEF vars
  <2>2. ExperimentInv => ExperimentInv'
    <3>1. ExperimentTypeOK /\ OneSees /\ MainKnows /\ Genuine
            => ExperimentTypeOK' /\ OneSees' /\ MainKnows' /\ Genuine'
      BY <2>1 DEF memory, experiment, ExperimentTypeOK, OneSees, Loaded, MainKnows, Idle, Genuine
    <3>2. \A t \in Pair : Progress(t) => Progress(t)'
      BY <2>1 DEF memory, experiment, Progress
    <3> QED
      BY <3>1, <3>2 DEF ExperimentInv
  <2>3. (AlignedInv => AlignedInv') /\ (StraddlingInv => StraddlingInv')
    BY <2>1 DEF memory, reading, AlignedInv, StraddlingInv, MemoryOfValue
  <2> QED
    BY <2>1, <2>2, <2>3 DEF ReportInv, experiment
<1> QED
  BY <1>1, <1>2, <1>3, <1>4, <1>5 DEF Next, Terminated

\* For every number of rounds a reordering is reported only if a load ran while its
\* thread's store was in the store buffer, and none with seq_cst; and however many
\* stores wait, a value is called torn only if it is, or is the first 0.
THEOREM ReportsAreGenuine == Spec => []ReportIsGenuine
PROOF
<1>1. Init => ReportInv
  BY ReportInit
<1>2. ReportInv /\ [Next]_vars => ReportInv'
  BY ReportStep
<1>3. ReportInv => ReportIsGenuine
  BY Places DEF ReportInv, ReportIsGenuine, ExperimentInv, Genuine, AlignedInv,
     StraddlingInv, Aligned!ReportIsGenuine, Straddling!ReportIsGenuine,
     Aligned!Whole, Straddling!Whole, Halves, Experiments
<1> QED
  BY <1>1, <1>2, <1>3, PTL DEF Spec

-------------------------------------------------------------------------------
(* The handshake of shmem.c                                                *)

Parties == {"client", "server"}
ShmLocs == {"client_ready", "server_ready", "head", "tail"}
ShmStore(l, x) == [loc |-> l, val |-> x]

\* The stores of one round, in order.  The client's round begins with taking
\* the answer to the question before.
ClientStores(i) ==
  << ShmStore("server_ready", 0), ShmStore("head", Shm!Ping(i)),
     ShmStore("tail", Shm!Ping(i)), ShmStore("client_ready", 1) >>
ServerStores(j) ==
  << ShmStore("head", Shm!Echo(j)), ShmStore("tail", Shm!Echo(j)),
     ShmStore("server_ready", 1), ShmStore("client_ready", 0) >>

\* How many of them a process has made, and the round they are of.
ClientMade ==
  IF cpc \in {"check_client", "check_server", "send", "reap", "done"} THEN 1
  ELSE IF cpc = "send_tail" THEN 2
  ELSE IF cpc = "set_client" THEN 3
  ELSE 4
ServerMade ==
  IF spc \in {"copy", "copy_tail", "echo"} THEN 0
  ELSE IF spc = "echo_tail" THEN 1
  ELSE IF spc = "set_server" THEN 2
  ELSE IF spc = "clear_client" THEN 3
  ELSE 4
ServerRound == IF spc \in {"wait", "done"} THEN si - 1 ELSE si

ShmStores == [loc : ShmLocs, val : {0, 1} \cup ({"ping", "echo"} \X Int)]

\* The buffer b holds the last of the first n of `stores'.
LastOf(b, stores, n) ==
  /\ b \in Seq(ShmStores) /\ Len(b) <= n
  /\ \A k \in 1 .. Len(b) : b[k] = stores[n - Len(b) + k]

\* How many of its round's stores a process has in memory; for the server, of the
\* answer to the client's question.
ClientReached == ClientMade - Len(buffer["client"])
ServerReached == ServerMade - Len(buffer["server"])
Answered == IF si = ci /\ spc = "wait" THEN 0 ELSE ServerReached

Texts == Shm!Halves \X Shm!Halves

ShmTypeOK ==
  /\ cpc \in {"check_client", "check_server", "send", "send_tail", "set_client",
              "await", "receive", "receive_tail", "clear_server", "reap", "done"}
  /\ spc \in {"wait", "copy", "copy_tail", "echo", "echo_tail", "set_server",
              "clear_client", "done"}
  /\ ci \in 0 .. Iterations /\ si \in 0 .. Iterations
  /\ ci = Iterations <=> cpc \in {"reap", "done"}
  /\ si = Iterations <=> spc = "done"
  /\ DOMAIN mem = ShmLocs /\ DOMAIN buffer = Parties
  /\ heard \in Seq(Texts) /\ answers \in Seq(Texts)

\* What the processes have printed, and read of what they are about to print.
Printed ==
  /\ Len(heard) = IF spc \in {"echo", "echo_tail", "set_server", "clear_client"}
                  THEN si + 1 ELSE si
  /\ Len(answers) = IF cpc = "clear_server" THEN ci + 1 ELSE ci
  /\ spc \in {"copy_tail", "echo", "echo_tail", "set_server", "clear_client"}
       => temp[1] = Shm!Ping(si)
  /\ spc \in {"echo", "echo_tail", "set_server", "clear_client"} => temp[2] = Shm!Ping(si)
  /\ DOMAIN temp = {1, 2}
  /\ cpc = "receive_tail" => reply = Shm!Echo(ci)

\* The client writes its question; the server waits, or has yet to take the
\* question before back.
Asking ==
  /\ ClientReached < 4
  /\ cpc \notin {"receive", "receive_tail", "clear_server"}
  /\ \/ spc \in {"wait", "done"} /\ si = ci /\ ServerReached \in {3, 4}
     \/ spc = "clear_client" /\ si + 1 = ci /\ ServerReached = 3
  /\ ServerReached = 3 => cpc \in {"check_client", "reap", "done"}
  /\ mem["client_ready"] = IF ServerReached = 3 THEN 1 ELSE 0
  /\ mem["server_ready"] = IF ClientReached = 0 THEN 1 ELSE 0
  /\ ClientReached >= 2 => mem["head"] = Shm!Ping(ci)
  /\ ClientReached >= 3 => mem["tail"] = Shm!Ping(ci)

\* The question is in memory, the flag of the answer is not.
Serving ==
  /\ ClientReached = 4 /\ cpc = "await" /\ Answered <= 2
  /\ \/ si = ci /\ (spc = "wait" => ServerReached = 4)
     \/ si = ci + 1 /\ spc \in {"wait", "done"}
  /\ mem["client_ready"] = 1 /\ mem["server_ready"] = 0
  /\ mem["head"] = IF Answered = 0 THEN Shm!Ping(ci) ELSE Shm!Echo(ci)
  /\ mem["tail"] = IF Answered <= 1 THEN Shm!Ping(ci) ELSE Shm!Echo(ci)

\* The answer is in memory, and the client has not let go of it.
Answering ==
  /\ ClientReached = 4 /\ cpc \in {"await", "receive", "receive_tail", "clear_server"}
  /\ Answered >= 3
  /\ \/ si = ci /\ spc = "clear_client"
     \/ si = ci + 1 /\ spc \in {"wait", "done"}
  /\ mem["client_ready"] = IF Answered = 3 THEN 1 ELSE 0
  /\ mem["server_ready"] = 1
  /\ mem["head"] = Shm!Echo(ci) /\ mem["tail"] = Shm!Echo(ci)

HandshakeInv ==
  /\ ShmTypeOK /\ Printed
  /\ LastOf(buffer["client"], ClientStores(ci), ClientMade)
  /\ LastOf(buffer["server"], ServerStores(ServerRound), ServerMade)
  /\ Asking \/ Serving \/ Answering

-------------------------------------------------------------------------------

\* A store that a process makes is the next of its round.
LEMMA LastOfAppend ==
  ASSUME NEW b, NEW stores, NEW n \in Nat, LastOf(b, stores, n),
         stores[n + 1] \in ShmStores
  PROVE  /\ LastOf(Append(b, stores[n + 1]), stores, n + 1)
         /\ Len(Append(b, stores[n + 1])) = Len(b) + 1
PROOF
<1> DEFINE c == Append(b, stores[n + 1])
<1>1. /\ c \in Seq(ShmStores) /\ Len(c) = Len(b) + 1 /\ c[Len(b) + 1] = stores[n + 1]
      /\ \A k \in 1 .. Len(b) : c[k] = b[k]
  BY AppendProperties DEF LastOf
<1>2. Len(b) \in Nat /\ Len(b) <= n
  BY LenProperties DEF LastOf
<1>3. ASSUME NEW k \in 1 .. Len(c)
      PROVE  c[k] = stores[n + 1 - Len(c) + k]
  <2>1. CASE k = Len(b) + 1
    <3>1. n + 1 - Len(c) + k = n + 1
      BY <1>1, <1>2, <2>1
    <3> QED
      BY <1>1, <2>1, <3>1
  <2>2. CASE k \in 1 .. Len(b)
    <3>1. n + 1 - Len(c) + k = n - Len(b) + k
      BY <1>1, <1>2, <2>2
    <3> QED
      BY <1>1, <2>2, <3>1 DEF LastOf
  <2> QED
    BY <1>1, <1>2, <1>3, <2>1, <2>2
<1> HIDE DEF c
<1>4. LastOf(c, stores, n + 1)
  BY <1>1, <1>2, <1>3 DEF LastOf
<1> QED
  BY <1>1, <1>4 DEF c

\* What reaches memory is the oldest of them.
LEMMA LastOfTail ==
  ASSUME NEW b, NEW stores, NEW n \in Nat, LastOf(b, stores, n), b # << >>
  PROVE  /\ LastOf(Tail(b), stores, n) /\ Len(Tail(b)) = Len(b) - 1
         /\ Len(b) \in 1 .. n /\ Head(b) = stores[n - Len(b) + 1]
PROOF
<1> DEFINE c == Tail(b)
<1>1. /\ c \in Seq(ShmStores) /\ Len(c) = Len(b) - 1 /\ Head(b) = b[1]
      /\ \A k \in 1 .. Len(c) : c[k] = b[k + 1]
  BY HeadTailProperties DEF LastOf
<1>2. Len(b) \in Nat /\ Len(b) <= n /\ Len(b) # 0
  BY LenProperties, EmptySeq DEF LastOf
<1>3. ASSUME NEW k \in 1 .. Len(c)
      PROVE  c[k] = stores[n - Len(c) + k]
  <2>1. k + 1 \in 1 .. Len(b) /\ n - Len(b) + (k + 1) = n - Len(c) + k
    BY <1>1, <1>2
  <2>2. b[k + 1] = stores[n - Len(b) + (k + 1)]
    BY <2>1 DEF LastOf
  <2> QED
    BY <1>1, <2>1, <2>2
<1>4. Head(b) = stores[n - Len(b) + 1]
  BY <1>1, <1>2 DEF LastOf
<1> HIDE DEF c
<1>5. LastOf(c, stores, n)
  BY <1>1, <1>2, <1>3 DEF LastOf
<1> QED
  BY <1>1, <1>2, <1>4, <1>5 DEF c

\* A load of a location that is not in the buffer reads memory.
LEMMA ShmReadMemory ==
  ASSUME NEW p, NEW x, \A k \in DOMAIN buffer[p] : buffer[p][k].loc # x
  PROVE  Shm!Read(p, x) = mem[x]
PROOF
<1>1. Shm!Pending(p, x) = {}
  BY DEF Shm!Pending
<1> QED
  BY <1>1 DEF Shm!Read

\* One of a location that is there once takes what is there.
LEMMA ShmReadBuffer ==
  ASSUME NEW p, NEW x, NEW k \in DOMAIN buffer[p] \cap Nat, buffer[p][k].loc = x,
         \A j \in DOMAIN buffer[p] : j # k => buffer[p][j].loc # x
  PROVE  Shm!Read(p, x) = buffer[p][k].val
PROOF
<1>1. Shm!Pending(p, x) = {k}
  BY DEF Shm!Pending
<1>2. (CHOOSE i \in {k} : \A j \in {k} : j <= i) = k
  OBVIOUS
<1> QED
  BY <1>1, <1>2 DEF Shm!Read

\* The stores of a round, one by one.
LEMMA TheStores ==
  ASSUME NEW i \in Int
  PROVE  /\ ClientStores(i)[1] = ShmStore("server_ready", 0)
         /\ ClientStores(i)[2] = ShmStore("head", Shm!Ping(i))
         /\ ClientStores(i)[3] = ShmStore("tail", Shm!Ping(i))
         /\ ClientStores(i)[4] = ShmStore("client_ready", 1)
         /\ ServerStores(i)[1] = ShmStore("head", Shm!Echo(i))
         /\ ServerStores(i)[2] = ShmStore("tail", Shm!Echo(i))
         /\ ServerStores(i)[3] = ShmStore("server_ready", 1)
         /\ ServerStores(i)[4] = ShmStore("client_ready", 0)
         /\ \A k \in 1 .. 4 : ClientStores(i)[k] \in ShmStores /\ ServerStores(i)[k] \in ShmStores
  BY DEF ClientStores, ServerStores, ShmStores, ShmStore, ShmLocs, Shm!Ping, Shm!Echo

\* Only one of them is of the flag that the process itself polls.
LEMMA TheFlags ==
  ASSUME NEW i \in Int
  PROVE  /\ \A k \in 1 .. 3 : ServerStores(i)[k].loc # "client_ready"
         /\ \A k \in 2 .. 4 : ClientStores(i)[k].loc # "server_ready"
PROOF
<1>1. ASSUME NEW k \in 1 .. 3
      PROVE  ServerStores(i)[k].loc # "client_ready"
  <2>1. k = 1 \/ k = 2 \/ k = 3
    OBVIOUS
  <2> QED
    BY <2>1 DEF ServerStores, ShmStore
<1>2. ASSUME NEW k \in 2 .. 4
      PROVE  ClientStores(i)[k].loc # "server_ready"
  <2>1. k = 2 \/ k = 3 \/ k = 4
    OBVIOUS
  <2> QED
    BY <2>1 DEF ClientStores, ShmStore
<1> QED
  BY <1>1, <1>2

\* Places in a buffer and in the round.
LEMMA Offsets ==
  ASSUME NEW n \in 0 .. 4, NEW j \in 1 .. n
  PROVE  /\ j # n => 4 - n + j \in 1 .. 3
         /\ n <= 3 => 4 - n + j \in 2 .. 4
         /\ n = 4 => (j # 1 => j \in 2 .. 4) /\ 4 - n + j = j
         /\ 4 - n + n = 4
  OBVIOUS

-------------------------------------------------------------------------------

\* Numbers: rounds and what is made of them.
LEMMA ShmNumbers ==
  ASSUME HandshakeInv
  PROVE  /\ Iterations \in Nat \ {0} /\ ci \in Nat /\ si \in Nat /\ ci \in Int /\ si \in Int
         /\ ci <= Iterations /\ si <= Iterations
         /\ ClientMade \in 1 .. 4 /\ ServerMade \in 0 .. 4 /\ ServerRound \in Int
         /\ buffer["client"] \in Seq(ShmStores) /\ buffer["server"] \in Seq(ShmStores)
         /\ Len(buffer["client"]) \in 0 .. ClientMade
         /\ Len(buffer["server"]) \in 0 .. ServerMade
         /\ ClientReached \in 0 .. ClientMade /\ ServerReached \in 0 .. ServerMade
PROOF
<1>1. Iterations \in Nat \ {0} /\ ci \in Nat /\ si \in Nat /\ ci <= Iterations /\ si <= Iterations
  BY StoreBuffersAssumption DEF HandshakeInv, ShmTypeOK
<1>2. ClientMade \in 1 .. 4 /\ ServerMade \in 0 .. 4 /\ ServerRound \in Int
  BY <1>1 DEF ClientMade, ServerMade, ServerRound
<1>3. /\ buffer["client"] \in Seq(ShmStores) /\ buffer["server"] \in Seq(ShmStores)
      /\ Len(buffer["client"]) <= ClientMade /\ Len(buffer["server"]) <= ServerMade
  BY DEF HandshakeInv, LastOf
<1>4. Len(buffer["client"]) \in Nat /\ Len(buffer["server"]) \in Nat
  BY <1>3, LenProperties
<1> QED
  BY <1>1, <1>2, <1>3, <1>4 DEF ClientReached, ServerReached

\* With an empty buffer a process reads memory.
LEMMA ReadsWithoutStores ==
  ASSUME NEW p, NEW x, buffer[p] \in Seq(ShmStores), Len(buffer[p]) = 0
  PROVE  Shm!Read(p, x) = mem[x]
PROOF
<1>1. DOMAIN buffer[p] = {}
  BY LenProperties
<1> QED
  BY <1>1, ShmReadMemory

\* The server reads that its request is taken back as soon as it has done so.
LEMMA ServerReadsFlag ==
  ASSUME HandshakeInv, spc = "wait"
  PROVE  Shm!Read("server", "client_ready")
           = IF Len(buffer["server"]) = 0 THEN mem["client_ready"] ELSE 0
PROOF
<1> DEFINE b == buffer["server"]
<1>1. b \in Seq(ShmStores) /\ Len(b) \in 0 .. 4 /\ ServerRound \in Int /\ ServerMade = 4
  BY ShmNumbers DEF ServerMade
<1>2. DOMAIN b = 1 .. Len(b)
  BY <1>1, LenProperties
<1>5. \A k \in 1 .. Len(b) : b[k] = ServerStores(ServerRound)[4 - Len(b) + k]
  BY <1>1 DEF HandshakeInv, LastOf
<1>3. CASE Len(b) = 0
  BY <1>1, <1>3, ReadsWithoutStores
<1>4. CASE Len(b) # 0
  <2>1. Len(b) \in DOMAIN b \cap Nat /\ b[Len(b)] = ShmStore("client_ready", 0)
    <3>1. Len(b) \in 1 .. Len(b) /\ 4 - Len(b) + Len(b) = 4
      BY <1>1, <1>4
    <3>2. b[Len(b)] = ServerStores(ServerRound)[4]
      BY <1>5, <3>1
    <3> QED
      BY <1>1, <1>2, <3>1, <3>2, TheStores
  <2>2. ASSUME NEW j \in DOMAIN b, j # Len(b)
        PROVE  b[j].loc # "client_ready"
    <3>1. j \in 1 .. Len(b) /\ 4 - Len(b) + j \in 1 .. 3
      BY <1>1, <1>2, <2>2, Offsets
    <3> QED
      BY <1>1, <1>5, <3>1, TheFlags
  <2>3. Shm!Read("server", "client_ready") = b[Len(b)].val
    BY <2>1, <2>2, ShmReadBuffer DEF ShmStore
  <2> QED
    BY <1>4, <2>1, <2>3 DEF ShmStore
<1> QED
  BY <1>3, <1>4

\* Before it asks, the client has at most the clearing of the answer's flag in its
\* buffer.
LEMMA ClientReadsFlags ==
  ASSUME HandshakeInv, cpc \in {"check_client", "check_server"}
  PROVE  /\ Shm!Read("client", "client_ready") = mem["client_ready"]
         /\ Shm!Read("client", "server_ready") = 0
PROOF
<1> DEFINE b == buffer["client"]
<1>1. b \in Seq(ShmStores) /\ Len(b) \in 0 .. 1 /\ ci \in Int /\ ClientMade = 1
  BY ShmNumbers DEF ClientMade
<1>2. DOMAIN b = 1 .. Len(b)
  BY <1>1, LenProperties
<1>5. \A k \in 1 .. Len(b) : b[k] = ClientStores(ci)[1 - Len(b) + k]
  BY <1>1 DEF HandshakeInv, LastOf
<1>3. CASE Len(b) = 0
  <2>1. mem["server_ready"] = 0
    BY <1>1, <1>3 DEF HandshakeInv, Asking, Serving, Answering, ClientReached
  <2> QED
    BY <1>1, <1>3, <2>1, ReadsWithoutStores
<1>4. CASE Len(b) = 1
  <2>1. 1 \in DOMAIN b \cap Nat /\ b[1] = ShmStore("server_ready", 0) /\ DOMAIN b = {1}
    BY <1>1, <1>2, <1>4, <1>5, TheStores
  <2>2. Shm!Read("client", "server_ready") = 0
    BY <2>1, ShmReadBuffer DEF ShmStore
  <2>3. Shm!Read("client", "client_ready") = mem["client_ready"]
    BY <2>1, ShmReadMemory DEF ShmStore
  <2> QED
    BY <2>2, <2>3
<1> QED
  BY <1>1, <1>3, <1>4

\* While it waits for the answer it reads the flag in memory, or one it has cleared.
LEMMA ClientAwaitsFlag ==
  ASSUME HandshakeInv, cpc = "await"
  PROVE  Shm!Read("client", "server_ready")
           = IF Len(buffer["client"]) = 0 THEN mem["server_ready"] ELSE 0
PROOF
<1> DEFINE b == buffer["client"]
<1>1. b \in Seq(ShmStores) /\ Len(b) \in 0 .. 4 /\ ci \in Int /\ ClientMade = 4
  BY ShmNumbers DEF ClientMade
<1>2. DOMAIN b = 1 .. Len(b)
  BY <1>1, LenProperties
<1>6. \A k \in 1 .. Len(b) : b[k] = ClientStores(ci)[4 - Len(b) + k]
  BY <1>1 DEF HandshakeInv, LastOf
<1>3. CASE Len(b) = 0
  BY <1>1, <1>3, ReadsWithoutStores
<1>4. CASE Len(b) # 0 /\ Len(b) # 4
  <2> DEFINE n == Len(b)
  <2>5. n \in 1 .. 3
    BY <1>1, <1>4
  <2>7. \A k \in 1 .. 3 : k \in 0 .. 4 /\ k <= 3
    OBVIOUS
  <2>6. DOMAIN b = 1 .. n
    BY <1>2
  <2>0. ClientReached \in 1 .. 3
    <3>1. ClientReached = 4 - n
      BY <1>1 DEF ClientReached
    <3> HIDE DEF n
    <3> QED
      BY <2>5, <3>1
  <2>1. mem["server_ready"] = 0
    BY <2>0 DEF HandshakeInv, Asking, Serving, Answering
  <2>2. ASSUME NEW j \in DOMAIN b
        PROVE  b[j].loc # "server_ready"
    <3>1. j \in 1 .. n
      BY <2>6
    <3>2. j \in 1 .. Len(b) /\ 4 - Len(b) + j \in 2 .. 4
      BY <2>5, <2>7, <3>1, Offsets
    <3> QED
      BY <1>1, <1>6, <3>2, TheFlags
  <2>3. Shm!Read("client", "server_ready") = mem["server_ready"]
    BY <2>2, ShmReadMemory
  <2> QED
    BY <1>4, <2>1, <2>3
<1>5. CASE Len(b) = 4
  <2>1. 1 \in DOMAIN b \cap Nat /\ b[1] = ShmStore("server_ready", 0)
    <3>1. 1 \in 1 .. Len(b) /\ 4 - Len(b) + 1 = 1
      BY <1>5
    <3> QED
      BY <1>1, <1>2, <1>6, <3>1, TheStores
  <2>2. ASSUME NEW j \in DOMAIN b, j # 1
        PROVE  b[j].loc # "server_ready"
    <3>1. j \in 1 .. Len(b) /\ j \in 2 .. 4 /\ 4 - Len(b) + j = j
      BY <1>1, <1>2, <1>5, <2>2, Offsets
    <3>2. b[j] = ClientStores(ci)[j]
      BY <1>6, <3>1
    <3> QED
      BY <1>1, <3>1, <3>2, TheFlags
  <2>3. Shm!Read("client", "server_ready") = b[1].val
    BY <2>1, <2>2, ShmReadBuffer DEF ShmStore
  <2> QED
    BY <1>5, <2>1, <2>3 DEF ShmStore
<1> QED
  BY <1>1, <1>3, <1>4, <1>5

-------------------------------------------------------------------------------

ChannelStep == [Shm!Channel!Next]_(Shm!Channel!vars)

\* An empty buffer fits everywhere.
LEMMA LastOfNone ==
  ASSUME NEW b \in Seq(ShmStores), Len(b) = 0, NEW stores, NEW n \in Nat
  PROVE  LastOf(b, stores, n)
  BY DEF LastOf

\* The client finds its request taken back, or looks again.
LEMMA ClientCheckOwnOK == HandshakeInv /\ Shm!ClientCheckOwn => HandshakeInv' /\ ChannelStep
PROOF
<1> SUFFICES ASSUME HandshakeInv, Shm!ClientCheckOwn
             PROVE  HandshakeInv' /\ ChannelStep
  OBVIOUS
<1>1. /\ cpc = "check_client"
      /\ cpc' = IF mem["client_ready"] = 1 THEN "check_client" ELSE "check_server"
      /\ UNCHANGED <<mem, buffer, ci, reply, answers, spc, si, temp, heard>>
  BY ClientReadsFlags DEF Shm!ClientCheckOwn, Shm!Client, Shm!server, memory, Shm!memory
<1>2. ShmTypeOK'
  BY <1>1 DEF HandshakeInv, ShmTypeOK
<1>3. Printed'
  BY <1>1 DEF HandshakeInv, Printed
<1>4. /\ ClientMade' = ClientMade /\ ServerMade' = ServerMade /\ ServerRound' = ServerRound
      /\ ClientReached' = ClientReached /\ ServerReached' = ServerReached /\ Answered' = Answered
  BY <1>1 DEF ClientMade, ServerMade, ServerRound, ClientReached, ServerReached, Answered
<1>5. LastOf(buffer["client"], ClientStores(ci), ClientMade)'
  BY <1>1, <1>4 DEF HandshakeInv, LastOf, ClientStores
<1>6. LastOf(buffer["server"], ServerStores(ServerRound), ServerMade)'
  BY <1>1, <1>4 DEF HandshakeInv, LastOf, ServerStores
<1>7. Asking /\ (mem["client_ready"] = 0 => ServerReached # 3)
  BY <1>1 DEF HandshakeInv, Asking, Serving, Answering
<1>8. Asking'
  BY <1>1, <1>4, <1>7 DEF Asking
<1>9. ChannelStep
  BY <1>1 DEF ChannelStep, Shm!Channel!vars
<1> QED
  BY <1>2, <1>3, <1>5, <1>6, <1>8, <1>9 DEF HandshakeInv

\* and the answer's flag down.
LEMMA ClientCheckOtherOK == HandshakeInv /\ Shm!ClientCheckOther => HandshakeInv' /\ ChannelStep
PROOF
<1> SUFFICES ASSUME HandshakeInv, Shm!ClientCheckOther
             PROVE  HandshakeInv' /\ ChannelStep
  OBVIOUS
<1>1. /\ cpc = "check_server" /\ cpc' = "send"
      /\ UNCHANGED <<mem, buffer, ci, reply, answers, spc, si, temp, heard>>
  BY ClientReadsFlags DEF Shm!ClientCheckOther, Shm!Client, Shm!server, memory, Shm!memory
<1>2. ShmTypeOK'
  BY <1>1 DEF HandshakeInv, ShmTypeOK
<1>3. Printed'
  BY <1>1 DEF HandshakeInv, Printed
<1>4. /\ ClientMade' = ClientMade /\ ServerMade' = ServerMade /\ ServerRound' = ServerRound
      /\ ClientReached' = ClientReached /\ ServerReached' = ServerReached /\ Answered' = Answered
  BY <1>1 DEF ClientMade, ServerMade, ServerRound, ClientReached, ServerReached, Answered
<1>5. LastOf(buffer["client"], ClientStores(ci), ClientMade)'
  BY <1>1, <1>4 DEF HandshakeInv, LastOf, ClientStores
<1>6. LastOf(buffer["server"], ServerStores(ServerRound), ServerMade)'
  BY <1>1, <1>4 DEF HandshakeInv, LastOf, ServerStores
<1>8. Asking'
  BY <1>1, <1>4 DEF HandshakeInv, Asking, Serving, Answering
<1>9. ChannelStep
  BY <1>1 DEF ChannelStep, Shm!Channel!vars
<1> QED
  BY <1>2, <1>3, <1>5, <1>6, <1>8, <1>9 DEF HandshakeInv

\* A store of the client's round.
LEMMA ClientWrites ==
  ASSUME HandshakeInv, ClientMade \in 1 .. 3, ClientMade' = ClientMade + 1, ci' = ci,
         NEW s, ClientStores(ci)[ClientMade + 1] = s,
         buffer' = [buffer EXCEPT !["client"] = Append(@, s)]
  PROVE  /\ LastOf(buffer["client"], ClientStores(ci), ClientMade)'
         /\ ClientReached' = ClientReached
         /\ buffer'["server"] = buffer["server"] /\ DOMAIN buffer' = Parties
PROOF
<1> DEFINE n == ClientMade
<1>1. DOMAIN buffer = Parties /\ LastOf(buffer["client"], ClientStores(ci), n)
  BY DEF HandshakeInv, ShmTypeOK
<1>2. ClientStores(ci)[n + 1] \in ShmStores
  <2>1. n + 1 \in 1 .. 4 /\ ci \in Int
    BY ShmNumbers
  <2> QED
    BY <2>1, TheStores
<1>3. buffer'["client"] = Append(buffer["client"], ClientStores(ci)[n + 1])
  BY <1>1 DEF Parties
<1>4. /\ LastOf(Append(buffer["client"], ClientStores(ci)[n + 1]), ClientStores(ci), n + 1)
      /\ Len(Append(buffer["client"], ClientStores(ci)[n + 1])) = Len(buffer["client"]) + 1
  BY <1>1, <1>2, LastOfAppend
<1>5. ClientReached' = ClientReached
  <2>1. \A m, l \in Int : (m + 1) - (l + 1) = m - l
    OBVIOUS
  <2> QED
    <3>1. Len(buffer'["client"]) = Len(buffer["client"]) + 1
      BY <1>3, <1>4
    <3>2. ClientMade \in Int /\ Len(buffer["client"]) \in Int
      BY ShmNumbers
    <3> QED
      BY <2>1, <3>1, <3>2 DEF ClientReached
<1> QED
  BY <1>1, <1>3, <1>4, <1>5 DEF Parties

\* and of the server's.
LEMMA ServerWrites ==
  ASSUME HandshakeInv, ServerMade \in 0 .. 3, ServerMade' = ServerMade + 1, ServerRound' = ServerRound,
         NEW s, ServerStores(ServerRound)[ServerMade + 1] = s,
         buffer' = [buffer EXCEPT !["server"] = Append(@, s)]
  PROVE  /\ LastOf(buffer["server"], ServerStores(ServerRound), ServerMade)'
         /\ ServerReached' = ServerReached
         /\ buffer'["client"] = buffer["client"] /\ DOMAIN buffer' = Parties
PROOF
<1> DEFINE n == ServerMade
<1>1. DOMAIN buffer = Parties /\ LastOf(buffer["server"], ServerStores(ServerRound), n)
  BY DEF HandshakeInv, ShmTypeOK
<1>2. ServerStores(ServerRound)[n + 1] \in ShmStores
  <2>1. n + 1 \in 1 .. 4 /\ ServerRound \in Int
    BY ShmNumbers
  <2> QED
    BY <2>1, TheStores
<1>3. buffer'["server"] = Append(buffer["server"], ServerStores(ServerRound)[n + 1])
  BY <1>1 DEF Parties
<1>4. /\ LastOf(Append(buffer["server"], ServerStores(ServerRound)[n + 1]),
                ServerStores(ServerRound), n + 1)
      /\ Len(Append(buffer["server"], ServerStores(ServerRound)[n + 1]))
           = Len(buffer["server"]) + 1
  BY <1>1, <1>2, LastOfAppend
<1>5. ServerReached' = ServerReached
  <2>1. \A m, l \in Int : (m + 1) - (l + 1) = m - l
    OBVIOUS
  <2> QED
    <3>1. Len(buffer'["server"]) = Len(buffer["server"]) + 1
      BY <1>3, <1>4
    <3>2. ServerMade \in Int /\ Len(buffer["server"]) \in Int
      BY ShmNumbers
    <3> QED
      BY <2>1, <3>1, <3>2 DEF ServerReached
<1> QED
  BY <1>1, <1>3, <1>4, <1>5 DEF Parties

\* The client writes the first half of its question.
LEMMA ClientSendOK == HandshakeInv /\ Shm!ClientSend => HandshakeInv' /\ ChannelStep
PROOF
<1> SUFFICES ASSUME HandshakeInv, Shm!ClientSend
             PROVE  HandshakeInv' /\ ChannelStep
  OBVIOUS
<1>1. /\ cpc = "send" /\ cpc' = "send_tail"
      /\ UNCHANGED <<mem, ci, reply, answers, spc, si, temp, heard>>
      /\ buffer' = [buffer EXCEPT !["client"] = Append(@, ShmStore("head", Shm!Ping(ci)))]
  BY DEF Shm!ClientSend, Shm!Client, Shm!server, Shm!Write, ShmStore
<1>2. /\ ClientMade \in 1 .. 3 /\ ClientMade' = ClientMade + 1
      /\ ClientStores(ci)[ClientMade + 1] = ShmStore("head", Shm!Ping(ci))
  BY <1>1, ShmNumbers, TheStores DEF ClientMade
<1>3. /\ LastOf(buffer["client"], ClientStores(ci), ClientMade)'
      /\ ClientReached' = ClientReached
      /\ buffer'["server"] = buffer["server"] /\ DOMAIN buffer' = Parties
  BY <1>1, <1>2, ClientWrites
<1>4. /\ ServerMade' = ServerMade /\ ServerRound' = ServerRound
      /\ ServerReached' = ServerReached
  BY <1>1, <1>3 DEF ServerMade, ServerRound, ServerReached
<1>5. LastOf(buffer["server"], ServerStores(ServerRound), ServerMade)'
  BY <1>1, <1>3, <1>4, ZenonT(60) DEF HandshakeInv, LastOf, ServerStores
<1>6. ShmTypeOK' /\ Printed'
  BY <1>1, <1>3 DEF HandshakeInv, ShmTypeOK, Printed
<1>7. Asking'
  BY <1>1, <1>3, <1>4 DEF HandshakeInv, Asking, Serving, Answering
<1>8. ChannelStep
  BY <1>1 DEF ChannelStep, Shm!Channel!vars
<1> QED
  BY <1>3, <1>5, <1>6, <1>7, <1>8 DEF HandshakeInv

\* and the second.
LEMMA ClientSendTailOK == HandshakeInv /\ Shm!ClientSendTail => HandshakeInv' /\ ChannelStep
PROOF
<1> SUFFICES ASSUME HandshakeInv, Shm!ClientSendTail
             PROVE  HandshakeInv' /\ ChannelStep
  OBVIOUS
<1>1. /\ cpc = "send_tail" /\ cpc' = "set_client"
      /\ UNCHANGED <<mem, ci, reply, answers, spc, si, temp, heard>>
      /\ buffer' = [buffer EXCEPT !["client"] = Append(@, ShmStore("tail", Shm!Ping(ci)))]
  BY DEF Shm!ClientSendTail, Shm!Client, Shm!server, Shm!Write, ShmStore
<1>2. /\ ClientMade \in 1 .. 3 /\ ClientMade' = ClientMade + 1
      /\ ClientStores(ci)[ClientMade + 1] = ShmStore("tail", Shm!Ping(ci))
  BY <1>1, ShmNumbers, TheStores DEF ClientMade
<1>3. /\ LastOf(buffer["client"], ClientStores(ci), ClientMade)'
      /\ ClientReached' = ClientReached
      /\ buffer'["server"] = buffer["server"] /\ DOMAIN buffer' = Parties
  BY <1>1, <1>2, ClientWrites
<1>4. /\ ServerMade' = ServerMade /\ ServerRound' = ServerRound
      /\ ServerReached' = ServerReached
  BY <1>1, <1>3 DEF ServerMade, ServerRound, ServerReached
<1>5. LastOf(buffer["server"], ServerStores(ServerRound), ServerMade)'
  BY <1>1, <1>3, <1>4 DEF HandshakeInv, LastOf, ServerStores
<1>6. ShmTypeOK' /\ Printed'
  BY <1>1, <1>3 DEF HandshakeInv, ShmTypeOK, Printed
<1>7. Asking'
  BY <1>1, <1>3, <1>4 DEF HandshakeInv, Asking, Serving, Answering
<1>8. ChannelStep
  BY <1>1 DEF ChannelStep, Shm!Channel!vars
<1> QED
  BY <1>3, <1>5, <1>6, <1>7, <1>8 DEF HandshakeInv

\* With the flag it has asked.
LEMMA ClientReadyOK == HandshakeInv /\ Shm!ClientReady => HandshakeInv' /\ ChannelStep
PROOF
<1> SUFFICES ASSUME HandshakeInv, Shm!ClientReady
             PROVE  HandshakeInv' /\ ChannelStep
  OBVIOUS
<1>1. /\ cpc = "set_client" /\ cpc' = "await"
      /\ UNCHANGED <<mem, ci, reply, answers, spc, si, temp, heard>>
      /\ buffer' = [buffer EXCEPT !["client"] = Append(@, ShmStore("client_ready", 1))]
  BY DEF Shm!ClientReady, Shm!Client, Shm!server, Shm!Write, ShmStore
<1>2. /\ ClientMade \in 1 .. 3 /\ ClientMade' = ClientMade + 1
      /\ ClientStores(ci)[ClientMade + 1] = ShmStore("client_ready", 1)
  BY <1>1, ShmNumbers, TheStores DEF ClientMade
<1>3. /\ LastOf(buffer["client"], ClientStores(ci), ClientMade)'
      /\ ClientReached' = ClientReached
      /\ buffer'["server"] = buffer["server"] /\ DOMAIN buffer' = Parties
  BY <1>1, <1>2, ClientWrites
<1>4. /\ ServerMade' = ServerMade /\ ServerRound' = ServerRound
      /\ ServerReached' = ServerReached
  BY <1>1, <1>3 DEF ServerMade, ServerRound, ServerReached
<1>5. LastOf(buffer["server"], ServerStores(ServerRound), ServerMade)'
  BY <1>1, <1>3, <1>4 DEF HandshakeInv, LastOf, ServerStores
<1>6. ShmTypeOK' /\ Printed'
  BY <1>1, <1>3 DEF HandshakeInv, ShmTypeOK, Printed
<1>7. Asking'
  BY <1>1, <1>3, <1>4 DEF HandshakeInv, Asking, Serving, Answering
<1>8. ChannelStep
  <2>1. ci < Iterations /\ Len(answers) = ci
    BY <1>1, ShmNumbers DEF HandshakeInv, ShmTypeOK, Printed
  <2> QED
    BY <1>1, <2>1, ShmNumbers DEF ChannelStep, Shm!Channel!Next, Shm!Channel!Ask
<1> QED
  BY <1>3, <1>5, <1>6, <1>7, <1>8 DEF HandshakeInv

\* Once the answer's flag is up the client's stores are all in memory.
LEMMA EmptyOnceAsked ==
  HandshakeInv /\ Answering => buffer["client"] \in Seq(ShmStores) /\ Len(buffer["client"]) = 0
  BY ShmNumbers DEF Answering, ClientReached, ClientMade

\* It waits for the answer's flag.
LEMMA ClientAwaitOK == HandshakeInv /\ Shm!ClientAwait => HandshakeInv' /\ ChannelStep
PROOF
<1> SUFFICES ASSUME HandshakeInv, Shm!ClientAwait
             PROVE  HandshakeInv' /\ ChannelStep
  OBVIOUS
<1>1. /\ cpc = "await"
      /\ cpc' = IF Len(buffer["client"]) = 0 /\ mem["server_ready"] = 1 THEN "receive" ELSE "await"
      /\ UNCHANGED <<mem, buffer, ci, reply, answers, spc, si, temp, heard>>
  BY ClientAwaitsFlag DEF Shm!ClientAwait, Shm!Client, Shm!server, memory, Shm!memory
<1>2. ShmTypeOK'
  BY <1>1 DEF HandshakeInv, ShmTypeOK
<1>3. Printed'
  BY <1>1 DEF HandshakeInv, Printed
<1>4. /\ ClientMade' = ClientMade /\ ServerMade' = ServerMade /\ ServerRound' = ServerRound
      /\ ClientReached' = ClientReached /\ ServerReached' = ServerReached /\ Answered' = Answered
  BY <1>1 DEF ClientMade, ServerMade, ServerRound, ClientReached, ServerReached, Answered
<1>5. LastOf(buffer["client"], ClientStores(ci), ClientMade)'
  BY <1>1, <1>4 DEF HandshakeInv, LastOf, ClientStores
<1>6. LastOf(buffer["server"], ServerStores(ServerRound), ServerMade)'
  BY <1>1, <1>4 DEF HandshakeInv, LastOf, ServerStores
<1>7. cpc' = "receive" => Answering
  <2>1. Len(buffer["client"]) = 0 => ClientReached = 4
    BY <1>1 DEF ClientReached, ClientMade
  <2> QED
    BY <1>1, <2>1 DEF HandshakeInv, Asking, Serving, Answering
<1>8. (Asking \/ Serving \/ Answering)'
  BY <1>1, <1>4, <1>7 DEF HandshakeInv, Asking, Serving, Answering
<1>9. ChannelStep
  BY <1>1 DEF ChannelStep, Shm!Channel!vars
<1> QED
  BY <1>2, <1>3, <1>5, <1>6, <1>8, <1>9 DEF HandshakeInv

\* It reads the answer, half by half.
LEMMA ClientReceiveOK == HandshakeInv /\ Shm!ClientReceive => HandshakeInv' /\ ChannelStep
PROOF
<1> SUFFICES ASSUME HandshakeInv, Shm!ClientReceive
             PROVE  HandshakeInv' /\ ChannelStep
  OBVIOUS
<1>1. /\ cpc = "receive" /\ cpc' = "receive_tail"
      /\ UNCHANGED <<mem, buffer, ci, answers, spc, si, temp, heard>>
      /\ reply' = Shm!Read("client", "head")
  BY DEF Shm!ClientReceive, Shm!Client, Shm!server, memory, Shm!memory
<1>2. ShmTypeOK'
  BY <1>1 DEF HandshakeInv, ShmTypeOK
<1>7. Answering /\ mem["head"] = Shm!Echo(ci)
  BY <1>1 DEF HandshakeInv, Asking, Serving, Answering
<1>10. reply' = Shm!Echo(ci)
  BY <1>1, <1>7, EmptyOnceAsked, ReadsWithoutStores
<1>3. Printed'
  BY <1>1, <1>10 DEF HandshakeInv, Printed, Shm!Echo
<1>4. /\ ClientMade' = ClientMade /\ ServerMade' = ServerMade /\ ServerRound' = ServerRound
      /\ ClientReached' = ClientReached /\ ServerReached' = ServerReached /\ Answered' = Answered
  BY <1>1 DEF ClientMade, ServerMade, ServerRound, ClientReached, ServerReached, Answered
<1>5. LastOf(buffer["client"], ClientStores(ci), ClientMade)'
  BY <1>1, <1>4 DEF HandshakeInv, LastOf, ClientStores
<1>6. LastOf(buffer["server"], ServerStores(ServerRound), ServerMade)'
  BY <1>1, <1>4 DEF HandshakeInv, LastOf, ServerStores
<1>8. Answering'
  BY <1>1, <1>4, <1>7 DEF Answering
<1>9. ChannelStep
  BY <1>1 DEF ChannelStep, Shm!Channel!vars
<1> QED
  BY <1>2, <1>3, <1>5, <1>6, <1>8, <1>9 DEF HandshakeInv

\* With the second half the client has heard the answer.
LEMMA ClientReceiveTailOK == HandshakeInv /\ Shm!ClientReceiveTail => HandshakeInv' /\ ChannelStep
PROOF
<1> SUFFICES ASSUME HandshakeInv, Shm!ClientReceiveTail
             PROVE  HandshakeInv' /\ ChannelStep
  OBVIOUS
<1>1. /\ cpc = "receive_tail" /\ cpc' = "clear_server"
      /\ UNCHANGED <<mem, buffer, ci, reply, spc, si, temp, heard>>
      /\ answers' = Append(answers, <<reply, Shm!Read("client", "tail")>>)
  BY DEF Shm!ClientReceiveTail, Shm!Client, Shm!server, memory, Shm!memory
<1>7. /\ Answering /\ mem["tail"] = Shm!Echo(ci) /\ reply = Shm!Echo(ci)
      /\ Len(answers) = ci /\ Len(heard) > ci /\ ci < Iterations
  BY <1>1, ShmNumbers DEF HandshakeInv, ShmTypeOK, Printed, Asking, Serving, Answering
<1>10. answers' = Append(answers, Shm!Whole(Shm!Echo(ci)))
  BY <1>1, <1>7, EmptyOnceAsked, ReadsWithoutStores DEF Shm!Whole
<1>11. answers \in Seq(Texts) /\ Shm!Whole(Shm!Echo(ci)) \in Texts
  BY <1>7, ShmNumbers DEF HandshakeInv, ShmTypeOK, Texts, Shm!Whole, Shm!Echo, Shm!Halves
<1>12. answers' \in Seq(Texts) /\ Len(answers') = Len(answers) + 1
  BY <1>10, <1>11, AppendProperties
<1>2. ShmTypeOK'
  BY <1>1, <1>12 DEF HandshakeInv, ShmTypeOK
<1>3. Printed'
  BY <1>1, <1>12 DEF HandshakeInv, Printed
<1>4. /\ ClientMade' = ClientMade /\ ServerMade' = ServerMade /\ ServerRound' = ServerRound
      /\ ClientReached' = ClientReached /\ ServerReached' = ServerReached /\ Answered' = Answered
  BY <1>1 DEF ClientMade, ServerMade, ServerRound, ClientReached, ServerReached, Answered
<1>5. LastOf(buffer["client"], ClientStores(ci), ClientMade)'
  BY <1>1, <1>4 DEF HandshakeInv, LastOf, ClientStores
<1>6. LastOf(buffer["server"], ServerStores(ServerRound), ServerMade)'
  BY <1>1, <1>4 DEF HandshakeInv, LastOf, ServerStores
<1>8. Answering'
  BY <1>1, <1>4, <1>7 DEF Answering
<1>9. ChannelStep
  BY <1>1, <1>7, <1>10 DEF ChannelStep, Shm!Channel!Next, Shm!Channel!Answer
<1> QED
  BY <1>2, <1>3, <1>5, <1>6, <1>8, <1>9 DEF HandshakeInv

\* It takes the answer's flag back; a round is over.
LEMMA ClientTakenOK == HandshakeInv /\ Shm!ClientTaken => HandshakeInv' /\ ChannelStep
PROOF
<1> SUFFICES ASSUME HandshakeInv, Shm!ClientTaken
             PROVE  HandshakeInv' /\ ChannelStep
  OBVIOUS
<1>1. /\ cpc = "clear_server" /\ cpc' = (IF ci + 1 < Iterations THEN "check_client" ELSE "reap")
      /\ UNCHANGED <<mem, reply, answers, spc, si, temp, heard>> /\ ci' = ci + 1
      /\ buffer' = [buffer EXCEPT !["client"] = Append(@, ShmStore("server_ready", 0))]
  BY DEF Shm!ClientTaken, Shm!Client, Shm!server, Shm!Write, ShmStore
<1>2. Answering /\ Len(buffer["client"]) = 0 /\ ci < Iterations
  BY <1>1, EmptyOnceAsked, ShmNumbers DEF HandshakeInv, ShmTypeOK, Asking, Serving, Answering
<1>3. /\ LastOf(buffer["client"], ClientStores(ci), ClientMade)'
      /\ Len(buffer'["client"]) = 1
      /\ buffer'["server"] = buffer["server"] /\ DOMAIN buffer' = Parties
  <2>1. LastOf(buffer["client"], ClientStores(ci + 1), 0)
    BY <1>2, ShmNumbers, LastOfNone
  <2>2. ClientStores(ci + 1)[0 + 1] = ShmStore("server_ready", 0)
        /\ ShmStore("server_ready", 0) \in ShmStores
    <3>1. 0 + 1 = 1 /\ ci + 1 \in Int
      BY ShmNumbers
    <3>2. ClientStores(ci + 1)[1] = ShmStore("server_ready", 0)
      BY DEF ClientStores
    <3> QED
      BY <3>1, <3>2 DEF ShmStore, ShmStores, ShmLocs
  <2>3. /\ LastOf(Append(buffer["client"], ShmStore("server_ready", 0)), ClientStores(ci + 1), 0 + 1)
        /\ Len(Append(buffer["client"], ShmStore("server_ready", 0))) = Len(buffer["client"]) + 1
    BY <2>1, <2>2, LastOfAppend
  <2>4. DOMAIN buffer = Parties
    BY DEF HandshakeInv, ShmTypeOK
  <2>5. buffer'["client"] = Append(buffer["client"], ShmStore("server_ready", 0))
    BY <1>1, <2>4 DEF Parties
  <2>6. ClientMade' = 0 + 1
    BY <1>1 DEF ClientMade
  <2> QED
    BY <1>1, <1>2, <2>3, <2>4, <2>5, <2>6 DEF Parties
<1>4. /\ ServerMade' = ServerMade /\ ServerRound' = ServerRound
      /\ ServerReached' = ServerReached
  BY <1>1, <1>3 DEF ServerMade, ServerRound, ServerReached
<1>5. LastOf(buffer["server"], ServerStores(ServerRound), ServerMade)'
  BY <1>1, <1>3, <1>4 DEF HandshakeInv, LastOf, ServerStores
<1>6. ShmTypeOK'
  BY <1>1, <1>2, <1>3, ShmNumbers DEF HandshakeInv, ShmTypeOK
<1>7. Printed'
  BY <1>1 DEF HandshakeInv, Printed
<1>9. ClientReached' = 0
  BY <1>1, <1>3 DEF ClientReached, ClientMade
<1>10. ServerReached = Answered /\ (spc = "clear_client" => ServerReached = 3)
       /\ ServerReached \in {3, 4}
  <2>1. ServerReached = Answered
    BY <1>2, ShmNumbers DEF Answering, Answered
  <2> QED
    BY <1>2, <2>1, ShmNumbers DEF Answering, ServerMade
<1>8. Asking'
  BY <1>1, <1>2, <1>4, <1>9, <1>10, ShmNumbers DEF Asking, Answering
<1>11. ChannelStep
  BY <1>1, ShmNumbers DEF ChannelStep, Shm!Channel!vars
<1> QED
  BY <1>3, <1>5, <1>6, <1>7, <1>8, <1>11 DEF HandshakeInv

\* main() reaps the server.
LEMMA ReapOK == HandshakeInv /\ Shm!Reap => HandshakeInv' /\ ChannelStep
PROOF
<1> SUFFICES ASSUME HandshakeInv, Shm!Reap
             PROVE  HandshakeInv' /\ ChannelStep
  OBVIOUS
<1>1. /\ cpc = "reap" /\ cpc' = "done"
      /\ UNCHANGED <<mem, buffer, ci, reply, answers, spc, si, temp, heard>>
  BY DEF Shm!Reap, Shm!Client, Shm!server, memory, Shm!memory
<1>2. ShmTypeOK'
  BY <1>1 DEF HandshakeInv, ShmTypeOK
<1>3. Printed'
  BY <1>1 DEF HandshakeInv, Printed
<1>4. /\ ClientMade' = ClientMade /\ ServerMade' = ServerMade /\ ServerRound' = ServerRound
      /\ ClientReached' = ClientReached /\ ServerReached' = ServerReached /\ Answered' = Answered
  BY <1>1 DEF ClientMade, ServerMade, ServerRound, ClientReached, ServerReached, Answered
<1>5. LastOf(buffer["client"], ClientStores(ci), ClientMade)'
  BY <1>1, <1>4 DEF HandshakeInv, LastOf, ClientStores
<1>6. LastOf(buffer["server"], ServerStores(ServerRound), ServerMade)'
  BY <1>1, <1>4 DEF HandshakeInv, LastOf, ServerStores
<1>8. Asking'
  BY <1>1, <1>4 DEF HandshakeInv, Asking, Serving, Answering
<1>9. ChannelStep
  BY <1>1 DEF ChannelStep, Shm!Channel!vars
<1> QED
  BY <1>2, <1>3, <1>5, <1>6, <1>8, <1>9 DEF HandshakeInv

\* While the server copies the question, it is in memory and nothing waits.
LEMMA WhileCopying ==
  HandshakeInv /\ spc \in {"copy", "copy_tail", "echo"}
    => /\ Serving /\ si = ci /\ Answered = 0 /\ ServerReached = 0
       /\ buffer["server"] \in Seq(ShmStores) /\ Len(buffer["server"]) = 0
PROOF
<1> SUFFICES ASSUME HandshakeInv, spc \in {"copy", "copy_tail", "echo"}
             PROVE  /\ Serving /\ si = ci /\ Answered = 0 /\ ServerReached = 0
                    /\ buffer["server"] \in Seq(ShmStores) /\ Len(buffer["server"]) = 0
  OBVIOUS
<1>1. /\ buffer["server"] \in Seq(ShmStores) /\ Len(buffer["server"]) = 0
      /\ ServerReached = 0 /\ Answered = 0
  BY ShmNumbers DEF ServerMade, ServerReached, Answered
<1> QED
  BY <1>1 DEF HandshakeInv, Asking, Serving, Answering

\* Nothing is asked while the server is between question and flag.
LEMMA WhileServing ==
  HandshakeInv /\ spc \in {"echo_tail", "set_server"}
    => Serving /\ si = ci /\ Answered = ServerReached
  BY ShmNumbers DEF HandshakeInv, Asking, Serving, Answering, Answered, ServerMade, ServerReached

\* The server finds the client's flag up, or looks again.
LEMMA ServerWaitOK == HandshakeInv /\ Shm!ServerWait => HandshakeInv' /\ ChannelStep
PROOF
<1> SUFFICES ASSUME HandshakeInv, Shm!ServerWait
             PROVE  HandshakeInv' /\ ChannelStep
  OBVIOUS
<1>1. /\ spc = "wait"
      /\ spc' = IF Len(buffer["server"]) = 0 /\ mem["client_ready"] = 1 THEN "copy" ELSE "wait"
      /\ UNCHANGED <<mem, buffer, cpc, ci, reply, answers, si, temp, heard>>
  BY ServerReadsFlag DEF Shm!ServerWait, Shm!Server, Shm!client, memory, Shm!memory
<1>2. ShmTypeOK' /\ Printed'
  BY <1>1 DEF HandshakeInv, ShmTypeOK, Printed
<1>4. /\ ClientMade' = ClientMade /\ ClientReached' = ClientReached
  BY <1>1 DEF ClientMade, ClientReached
<1>5. LastOf(buffer["client"], ClientStores(ci), ClientMade)'
  BY <1>1, <1>4 DEF HandshakeInv, LastOf, ClientStores
<1>6. ASSUME spc' = "wait"
      PROVE  /\ LastOf(buffer["server"], ServerStores(ServerRound), ServerMade)'
             /\ (Asking \/ Serving \/ Answering)'
  <2>1. UNCHANGED <<ServerMade, ServerRound, ServerReached, Answered>>
    BY <1>1, <1>6 DEF ServerMade, ServerRound, ServerReached, Answered
  <2>2. LastOf(buffer["server"], ServerStores(ServerRound), ServerMade)'
    BY <1>1, <2>1 DEF HandshakeInv, LastOf, ServerStores
  <2>3. (Asking \/ Serving \/ Answering)'
    BY <1>1, <1>4, <1>6, <2>1 DEF HandshakeInv, Asking, Serving, Answering
  <2> QED
    BY <2>2, <2>3
<1>7. ASSUME spc' = "copy"
      PROVE  /\ LastOf(buffer["server"], ServerStores(ServerRound), ServerMade)'
             /\ (Asking \/ Serving \/ Answering)'
  <2>1. Len(buffer["server"]) = 0 /\ mem["client_ready"] = 1
    BY <1>1, <1>7
  <2>2. ServerReached = 4
    BY <1>1, <2>1 DEF ServerReached, ServerMade
  <2>3. Serving /\ si = ci /\ Answered = 0
    BY <1>1, <2>1, <2>2 DEF HandshakeInv, Asking, Serving, Answering, Answered
  <2>4. ServerMade' = 0 /\ ServerReached' = 0 /\ Answered' = 0
    BY <1>1, <1>7, <2>1 DEF ServerMade, ServerReached, Answered
  <2>5. LastOf(buffer["server"], ServerStores(ServerRound), ServerMade)'
    BY <1>1, <2>1, <2>4, ShmNumbers DEF LastOf
  <2>6. Serving'
    BY <1>1, <1>4, <1>7, <2>3, <2>4 DEF Serving
  <2> QED
    BY <2>5, <2>6
<1>9. ChannelStep
  BY <1>1 DEF ChannelStep, Shm!Channel!vars
<1> QED
  BY <1>1, <1>2, <1>5, <1>6, <1>7, <1>9 DEF HandshakeInv

\* It copies the question, half by half.
LEMMA ServerCopyOK == HandshakeInv /\ Shm!ServerCopy => HandshakeInv' /\ ChannelStep
PROOF
<1> SUFFICES ASSUME HandshakeInv, Shm!ServerCopy
             PROVE  HandshakeInv' /\ ChannelStep
  OBVIOUS
<1>1. /\ spc = "copy" /\ spc' = "copy_tail"
      /\ UNCHANGED <<mem, buffer, cpc, ci, reply, answers, si, heard>>
      /\ temp' = <<Shm!Read("server", "head"), temp[2]>>
  BY DEF Shm!ServerCopy, Shm!Server, Shm!client, memory, Shm!memory
<1>2. Serving /\ si = ci /\ Answered = 0 /\ Shm!Read("server", "head") = Shm!Ping(si)
  BY <1>1, WhileCopying, ReadsWithoutStores DEF Serving
<1>3. ShmTypeOK' /\ Printed'
  BY <1>1, <1>2 DEF HandshakeInv, ShmTypeOK, Printed, Shm!Ping
<1>4. /\ ClientMade' = ClientMade /\ ClientReached' = ClientReached
  BY <1>1 DEF ClientMade, ClientReached
<1>5. LastOf(buffer["client"], ClientStores(ci), ClientMade)'
  BY <1>1, <1>4 DEF HandshakeInv, LastOf, ClientStores
<1>6. /\ ServerMade' = ServerMade /\ ServerRound' = ServerRound
      /\ ServerReached' = ServerReached /\ Answered' = Answered
  BY <1>1 DEF ServerMade, ServerRound, ServerReached, Answered
<1>7. LastOf(buffer["server"], ServerStores(ServerRound), ServerMade)'
  BY <1>1, <1>6 DEF HandshakeInv, LastOf, ServerStores
<1>8. Serving'
  BY <1>1, <1>2, <1>4, <1>6 DEF Serving
<1>9. ChannelStep
  BY <1>1 DEF ChannelStep, Shm!Channel!vars
<1> QED
  BY <1>3, <1>5, <1>7, <1>8, <1>9 DEF HandshakeInv

\* With the second half the server has heard it.
LEMMA ServerCopyTailOK == HandshakeInv /\ Shm!ServerCopyTail => HandshakeInv' /\ ChannelStep
PROOF
<1> SUFFICES ASSUME HandshakeInv, Shm!ServerCopyTail
             PROVE  HandshakeInv' /\ ChannelStep
  OBVIOUS
<1>1. /\ spc = "copy_tail" /\ spc' = "echo"
      /\ UNCHANGED <<mem, buffer, cpc, ci, reply, answers, si>>
      /\ temp' = <<temp[1], Shm!Read("server", "tail")>>
      /\ heard' = Append(heard, temp')
  BY DEF Shm!ServerCopyTail, Shm!Server, Shm!client, memory, Shm!memory
<1>2. /\ Serving /\ si = ci /\ Answered = 0 /\ Shm!Read("server", "tail") = Shm!Ping(si)
  BY <1>1, WhileCopying, ReadsWithoutStores DEF Serving
<1>10. temp[1] = Shm!Ping(si) /\ Len(heard) = si /\ cpc = "await" /\ si < Iterations
  BY <1>1, <1>2, ShmNumbers DEF HandshakeInv, ShmTypeOK, Printed, Serving
<1>11. temp' = Shm!Whole(Shm!Ping(si))
  BY <1>1, <1>2, <1>10 DEF Shm!Whole
<1>12. heard \in Seq(Texts) /\ temp' \in Texts
  BY <1>10, <1>11, ShmNumbers DEF HandshakeInv, ShmTypeOK, Texts, Shm!Whole, Shm!Ping, Shm!Halves
<1>13. heard' \in Seq(Texts) /\ Len(heard') = Len(heard) + 1
  BY <1>1, <1>12, AppendProperties
<1>3. ShmTypeOK'
  BY <1>1, <1>13 DEF HandshakeInv, ShmTypeOK
<1>14. Printed'
  BY <1>1, <1>10, <1>11, <1>13 DEF HandshakeInv, Printed, Shm!Whole, Shm!Ping
<1>4. /\ ClientMade' = ClientMade /\ ClientReached' = ClientReached
  BY <1>1 DEF ClientMade, ClientReached
<1>5. LastOf(buffer["client"], ClientStores(ci), ClientMade)'
  BY <1>1, <1>4 DEF HandshakeInv, LastOf, ClientStores
<1>6. /\ ServerMade' = ServerMade /\ ServerRound' = ServerRound
      /\ ServerReached' = ServerReached /\ Answered' = Answered
  BY <1>1 DEF ServerMade, ServerRound, ServerReached, Answered
<1>7. LastOf(buffer["server"], ServerStores(ServerRound), ServerMade)'
  BY <1>1, <1>6 DEF HandshakeInv, LastOf, ServerStores
<1>8. Serving'
  BY <1>1, <1>2, <1>4, <1>6 DEF Serving
<1>9. ChannelStep
  BY <1>1, <1>2, <1>10, <1>11, ShmNumbers DEF ChannelStep, Shm!Channel!Next, Shm!Channel!Hear
<1> QED
  BY <1>3, <1>5, <1>7, <1>8, <1>9, <1>14 DEF HandshakeInv

\* The server writes the first half of the echo.
LEMMA ServerEchoOK == HandshakeInv /\ Shm!ServerEcho => HandshakeInv' /\ ChannelStep
PROOF
<1> SUFFICES ASSUME HandshakeInv, Shm!ServerEcho
             PROVE  HandshakeInv' /\ ChannelStep
  OBVIOUS
<1>1. /\ spc = "echo" /\ spc' = "echo_tail"
      /\ UNCHANGED <<mem, cpc, ci, reply, answers, si, temp, heard>>
      /\ buffer' = [buffer EXCEPT !["server"] = Append(@, ShmStore("head", Shm!Echo(temp[1][2])))]
  BY DEF Shm!ServerEcho, Shm!Server, Shm!client, Shm!Write, ShmStore
<1>10. Serving /\ si = ci /\ temp[1] = Shm!Ping(si)
  BY <1>1, WhileCopying DEF HandshakeInv, Printed
<1>2. /\ ServerMade = 0 /\ ServerMade \in 0 .. 3 /\ ServerMade' = ServerMade + 1
      /\ ServerRound' = ServerRound /\ ServerRound = si
  BY <1>1 DEF ServerMade, ServerRound
<1>11. ServerStores(ServerRound)[ServerMade + 1] = ShmStore("head", Shm!Echo(temp[1][2]))
  BY <1>2, <1>10 DEF ServerStores, Shm!Ping
<1>3. /\ LastOf(buffer["server"], ServerStores(ServerRound), ServerMade)'
      /\ ServerReached' = ServerReached
      /\ buffer'["client"] = buffer["client"] /\ DOMAIN buffer' = Parties
  BY <1>1, <1>2, <1>11, ServerWrites
<1>4. /\ ClientMade' = ClientMade /\ ClientReached' = ClientReached
  BY <1>1, <1>3 DEF ClientMade, ClientReached
<1>5. LastOf(buffer["client"], ClientStores(ci), ClientMade)'
  BY <1>1, <1>3, <1>4 DEF HandshakeInv, LastOf, ClientStores
<1>6. ShmTypeOK' /\ Printed'
  BY <1>1, <1>3 DEF HandshakeInv, ShmTypeOK, Printed
<1>7. Answered' = Answered
  BY <1>1, <1>3 DEF Answered
<1>8. Serving'
  BY <1>1, <1>3, <1>4, <1>7, <1>10 DEF Serving
<1>9. ChannelStep
  BY <1>1 DEF ChannelStep, Shm!Channel!vars
<1> QED
  BY <1>3, <1>5, <1>6, <1>8, <1>9 DEF HandshakeInv

\* and the second.
LEMMA ServerEchoTailOK == HandshakeInv /\ Shm!ServerEchoTail => HandshakeInv' /\ ChannelStep
PROOF
<1> SUFFICES ASSUME HandshakeInv, Shm!ServerEchoTail
             PROVE  HandshakeInv' /\ ChannelStep
  OBVIOUS
<1>1. /\ spc = "echo_tail" /\ spc' = "set_server"
      /\ UNCHANGED <<mem, cpc, ci, reply, answers, si, temp, heard>>
      /\ buffer' = [buffer EXCEPT !["server"] = Append(@, ShmStore("tail", Shm!Echo(temp[2][2])))]
  BY DEF Shm!ServerEchoTail, Shm!Server, Shm!client, Shm!Write, ShmStore
<1>10. Serving /\ si = ci /\ temp[2] = Shm!Ping(si)
  BY <1>1, WhileServing DEF HandshakeInv, Printed
<1>2. /\ ServerMade = 1 /\ ServerMade \in 0 .. 3 /\ ServerMade' = ServerMade + 1
      /\ ServerRound' = ServerRound /\ ServerRound = si
  BY <1>1 DEF ServerMade, ServerRound
<1>11. ServerStores(ServerRound)[ServerMade + 1] = ShmStore("tail", Shm!Echo(temp[2][2]))
  BY <1>2, <1>10 DEF ServerStores, Shm!Ping
<1>3. /\ LastOf(buffer["server"], ServerStores(ServerRound), ServerMade)'
      /\ ServerReached' = ServerReached
      /\ buffer'["client"] = buffer["client"] /\ DOMAIN buffer' = Parties
  BY <1>1, <1>2, <1>11, ServerWrites
<1>4. /\ ClientMade' = ClientMade /\ ClientReached' = ClientReached
  BY <1>1, <1>3 DEF ClientMade, ClientReached
<1>5. LastOf(buffer["client"], ClientStores(ci), ClientMade)'
  BY <1>1, <1>3, <1>4 DEF HandshakeInv, LastOf, ClientStores
<1>6. ShmTypeOK' /\ Printed'
  BY <1>1, <1>3 DEF HandshakeInv, ShmTypeOK, Printed
<1>7. Answered' = Answered
  BY <1>1, <1>3 DEF Answered
<1>8. Serving'
  BY <1>1, <1>3, <1>4, <1>7, <1>10 DEF Serving
<1>9. ChannelStep
  BY <1>1 DEF ChannelStep, Shm!Channel!vars
<1> QED
  BY <1>3, <1>5, <1>6, <1>8, <1>9 DEF HandshakeInv

\* Then it sets the flag.
LEMMA ServerReadyOK == HandshakeInv /\ Shm!ServerReady => HandshakeInv' /\ ChannelStep
PROOF
<1> SUFFICES ASSUME HandshakeInv, Shm!ServerReady
             PROVE  HandshakeInv' /\ ChannelStep
  OBVIOUS
<1>1. /\ spc = "set_server" /\ spc' = "clear_client"
      /\ UNCHANGED <<mem, cpc, ci, reply, answers, si, temp, heard>>
      /\ buffer' = [buffer EXCEPT !["server"] = Append(@, ShmStore("server_ready", 1))]
  BY DEF Shm!ServerReady, Shm!Server, Shm!client, Shm!Write, ShmStore
<1>10. Serving /\ si = ci
  BY <1>1, WhileServing DEF HandshakeInv, Printed
<1>2. /\ ServerMade = 2 /\ ServerMade \in 0 .. 3 /\ ServerMade' = ServerMade + 1
      /\ ServerRound' = ServerRound /\ ServerRound = si
  BY <1>1 DEF ServerMade, ServerRound
<1>11. ServerStores(ServerRound)[ServerMade + 1] = ShmStore("server_ready", 1)
  BY <1>2, <1>10 DEF ServerStores
<1>3. /\ LastOf(buffer["server"], ServerStores(ServerRound), ServerMade)'
      /\ ServerReached' = ServerReached
      /\ buffer'["client"] = buffer["client"] /\ DOMAIN buffer' = Parties
  BY <1>1, <1>2, <1>11, ServerWrites
<1>4. /\ ClientMade' = ClientMade /\ ClientReached' = ClientReached
  BY <1>1, <1>3 DEF ClientMade, ClientReached
<1>5. LastOf(buffer["client"], ClientStores(ci), ClientMade)'
  BY <1>1, <1>3, <1>4 DEF HandshakeInv, LastOf, ClientStores
<1>6. ShmTypeOK' /\ Printed'
  BY <1>1, <1>3 DEF HandshakeInv, ShmTypeOK, Printed
<1>7. Answered' = Answered
  BY <1>1, <1>3 DEF Answered
<1>8. Serving'
  BY <1>1, <1>3, <1>4, <1>7, <1>10 DEF Serving
<1>9. ChannelStep
  BY <1>1 DEF ChannelStep, Shm!Channel!vars
<1> QED
  BY <1>3, <1>5, <1>6, <1>8, <1>9 DEF HandshakeInv

\* Last it takes the client's flag back, in the client's round or after it.
LEMMA ServerTakenOK == HandshakeInv /\ Shm!ServerTaken => HandshakeInv' /\ ChannelStep
PROOF
<1> SUFFICES ASSUME HandshakeInv, Shm!ServerTaken
             PROVE  HandshakeInv' /\ ChannelStep
  OBVIOUS
<1>1. /\ spc = "clear_client" /\ spc' = (IF si + 1 < Iterations THEN "wait" ELSE "done")
      /\ UNCHANGED <<mem, cpc, ci, reply, answers, temp, heard>> /\ si' = si + 1
      /\ buffer' = [buffer EXCEPT !["server"] = Append(@, ShmStore("client_ready", 0))]
  BY DEF Shm!ServerTaken, Shm!Server, Shm!client, Shm!Write, ShmStore
<1>2. /\ ServerMade = 3 /\ ServerMade \in 0 .. 3 /\ ServerMade' = ServerMade + 1
      /\ ServerRound' = ServerRound /\ ServerRound = si
  BY <1>1, ShmNumbers DEF ServerMade, ServerRound
<1>11. ServerStores(ServerRound)[ServerMade + 1] = ShmStore("client_ready", 0)
  BY <1>2 DEF ServerStores
<1>3. /\ LastOf(buffer["server"], ServerStores(ServerRound), ServerMade)'
      /\ ServerReached' = ServerReached
      /\ buffer'["client"] = buffer["client"] /\ DOMAIN buffer' = Parties
  BY <1>1, <1>2, <1>11, ServerWrites
<1>4. /\ ClientMade' = ClientMade /\ ClientReached' = ClientReached
  BY <1>1, <1>3 DEF ClientMade, ClientReached
<1>5. LastOf(buffer["client"], ClientStores(ci), ClientMade)'
  BY <1>1, <1>3, <1>4 DEF HandshakeInv, LastOf, ClientStores
<1>6. ShmTypeOK'
  BY <1>1, <1>3, ShmNumbers DEF HandshakeInv, ShmTypeOK
<1>7. Printed'
  BY <1>1 DEF HandshakeInv, Printed
<1>8. (Asking \/ Serving \/ Answering)'
  <2>1. CASE Asking
    <3>1. si' = ci /\ ServerReached = 3
      BY <1>1, <2>1 DEF Asking
    <3> QED
      BY <1>1, <1>3, <1>4, <2>1, <3>1 DEF Asking
  <2>2. CASE Serving \/ Answering
    <3>1. si = ci
      BY <1>1, <2>2 DEF Serving, Answering
    <3>2. si' # ci' /\ si' = ci' + 1
      BY <1>1, <3>1, ShmNumbers
    <3>3. Answered = ServerReached /\ Answered' = ServerReached
      BY <1>1, <1>3, <3>2 DEF Answered
    <3> QED
      BY <1>1, <1>3, <1>4, <2>2, <3>2, <3>3 DEF Serving, Answering
  <2> QED
    BY <2>1, <2>2 DEF HandshakeInv
<1>9. ChannelStep
  BY <1>1 DEF ChannelStep, Shm!Channel!vars
<1> QED
  BY <1>3, <1>5, <1>6, <1>7, <1>8, <1>9 DEF HandshakeInv

-------------------------------------------------------------------------------

\* One store of the client reaches memory.
LEMMA ClientFlushOK == HandshakeInv /\ Shm!MemoryStep("client") => HandshakeInv' /\ ChannelStep
PROOF
<1> SUFFICES ASSUME HandshakeInv, Shm!MemoryStep("client")
             PROVE  HandshakeInv' /\ ChannelStep
  OBVIOUS
<1> DEFINE b == buffer["client"]
           r == ClientReached
<1>1. /\ b # << >>
      /\ mem' = [mem EXCEPT ![Head(b).loc] = Head(b).val]
      /\ buffer' = [buffer EXCEPT !["client"] = Tail(@)]
      /\ UNCHANGED <<cpc, ci, reply, answers, spc, si, temp, heard>>
  BY DEF Shm!MemoryStep, Shm!Flush, Shm!client, Shm!server
<1>2. LastOf(b, ClientStores(ci), ClientMade) /\ ClientMade \in Nat /\ DOMAIN buffer = Parties
  BY ShmNumbers DEF HandshakeInv, ShmTypeOK
<1>3. /\ LastOf(Tail(b), ClientStores(ci), ClientMade) /\ Len(Tail(b)) = Len(b) - 1
      /\ Len(b) \in 1 .. ClientMade /\ Head(b) = ClientStores(ci)[ClientMade - Len(b) + 1]
  BY <1>1, <1>2, LastOfTail
<1>4. buffer'["client"] = Tail(b) /\ buffer'["server"] = buffer["server"] /\ DOMAIN buffer' = Parties
  BY <1>1, <1>2 DEF Parties
<1>5. /\ ClientMade' = ClientMade /\ ServerMade' = ServerMade /\ ServerRound' = ServerRound
      /\ ServerReached' = ServerReached /\ Answered' = Answered
  BY <1>1, <1>4 DEF ClientMade, ServerMade, ServerRound, ServerReached, Answered
<1>6. r \in 0 .. 3 /\ r < ClientMade /\ ClientReached' = r + 1 /\ Head(b) = ClientStores(ci)[r + 1]
  <2>1. \A m \in 1 .. 4 : \A l \in 1 .. m :
          m - l \in 0 .. 3 /\ m - l < m /\ m - (l - 1) = (m - l) + 1
    OBVIOUS
  <2>2. ClientMade \in 1 .. 4
    BY ShmNumbers
  <2> QED
    BY <1>3, <1>4, <1>5, <2>1, <2>2 DEF ClientReached
<1>7. LastOf(buffer["client"], ClientStores(ci), ClientMade)'
  BY <1>1, <1>3, <1>4, <1>5 DEF ClientStores
<1>8. LastOf(buffer["server"], ServerStores(ServerRound), ServerMade)'
  BY <1>4, <1>5 DEF HandshakeInv, LastOf, ServerStores
<1>9. Asking
  BY <1>6 DEF HandshakeInv, Serving, Answering
<1>10. /\ r = 0 => mem' = [mem EXCEPT !["server_ready"] = 0]
       /\ r = 1 => mem' = [mem EXCEPT !["head"] = Shm!Ping(ci)]
       /\ r = 2 => mem' = [mem EXCEPT !["tail"] = Shm!Ping(ci)]
       /\ r = 3 => mem' = [mem EXCEPT !["client_ready"] = 1]
  <2> HIDE DEF b, r
  <2>0. \A k \in 0 .. 3 : (k = 0 => k + 1 = 1) /\ (k = 1 => k + 1 = 2) /\ (k = 2 => k + 1 = 3) /\ (k = 3 => k + 1 = 4)
    OBVIOUS
  <2>1. ASSUME r = 0
        PROVE  mem' = [mem EXCEPT !["server_ready"] = 0]
    <3>1. Head(b) = ClientStores(ci)[1]
      BY <1>6, <2>0, <2>1
    <3>2. Head(b).loc = "server_ready" /\ Head(b).val = 0
      BY <3>1 DEF ClientStores, ShmStore
    <3> QED
      BY <1>1, <3>2
  <2>2. ASSUME r = 1
        PROVE  mem' = [mem EXCEPT !["head"] = Shm!Ping(ci)]
    <3>1. Head(b) = ClientStores(ci)[2]
      BY <1>6, <2>0, <2>2
    <3>2. Head(b).loc = "head" /\ Head(b).val = Shm!Ping(ci)
      BY <3>1 DEF ClientStores, ShmStore
    <3> QED
      BY <1>1, <3>2
  <2>3. ASSUME r = 2
        PROVE  mem' = [mem EXCEPT !["tail"] = Shm!Ping(ci)]
    <3>1. Head(b) = ClientStores(ci)[3]
      BY <1>6, <2>0, <2>3
    <3>2. Head(b).loc = "tail" /\ Head(b).val = Shm!Ping(ci)
      BY <3>1 DEF ClientStores, ShmStore
    <3> QED
      BY <1>1, <3>2
  <2>4. ASSUME r = 3
        PROVE  mem' = [mem EXCEPT !["client_ready"] = 1]
    <3>1. Head(b) = ClientStores(ci)[4]
      BY <1>6, <2>0, <2>4
    <3>2. Head(b).loc = "client_ready" /\ Head(b).val = 1
      BY <3>1 DEF ClientStores, ShmStore
    <3> QED
      BY <1>1, <3>2
  <2> QED
    BY <2>1, <2>2, <2>3, <2>4
<1>11. DOMAIN mem = ShmLocs /\ DOMAIN mem' = ShmLocs
  BY <1>1 DEF HandshakeInv, ShmTypeOK
<1>12. ShmTypeOK' /\ Printed'
  BY <1>1, <1>4, <1>11 DEF HandshakeInv, ShmTypeOK, Printed
<1> HIDE DEF b, r
<1>13. ASSUME r # 3
       PROVE  Asking'
  BY <1>1, <1>5, <1>6, <1>9, <1>10, <1>11, <1>13 DEF Asking, ShmLocs, r, Shm!Ping
<1>14. ASSUME r = 3
       PROVE  Serving'
  <2>1. ClientMade = 4 /\ cpc = "await"
    <3>1. ClientMade = 4
      BY <1>6, <1>14, ShmNumbers
    <3> QED
      BY <1>9, <3>1 DEF Asking, ClientMade, HandshakeInv, ShmTypeOK
  <2>2. spc = "wait" /\ si = ci /\ ServerReached = 4
    BY <1>9, <2>1 DEF Asking, HandshakeInv, ShmTypeOK
  <2>3. Answered = 0
    BY <2>2 DEF Answered
  <2>4. Serving'
    BY <1>1, <1>5, <1>6, <1>9, <1>10, <1>11, <1>14, <2>1, <2>2, <2>3
    DEF Asking, Serving, ShmLocs, r, Shm!Ping
  <2> QED
    BY <2>4
<1>15. (Asking \/ Serving \/ Answering)'
  BY <1>6, <1>13, <1>14
<1>16. ChannelStep
  BY <1>1 DEF ChannelStep, Shm!Channel!vars
<1> QED
  BY <1>7, <1>8, <1>12, <1>15, <1>16 DEF HandshakeInv

\* One of the server.
LEMMA ServerFlushOK == HandshakeInv /\ Shm!MemoryStep("server") => HandshakeInv' /\ ChannelStep
PROOF
<1> SUFFICES ASSUME HandshakeInv, Shm!MemoryStep("server")
             PROVE  HandshakeInv' /\ ChannelStep
  OBVIOUS
<1> DEFINE b == buffer["server"]
           r == ServerReached
<1>1. /\ b # << >>
      /\ mem' = [mem EXCEPT ![Head(b).loc] = Head(b).val]
      /\ buffer' = [buffer EXCEPT !["server"] = Tail(@)]
      /\ UNCHANGED <<cpc, ci, reply, answers, spc, si, temp, heard>>
  BY DEF Shm!MemoryStep, Shm!Flush, Shm!client, Shm!server
<1>2. /\ LastOf(b, ServerStores(ServerRound), ServerMade) /\ ServerMade \in Nat
      /\ DOMAIN buffer = Parties
  BY ShmNumbers DEF HandshakeInv, ShmTypeOK
<1>3. /\ LastOf(Tail(b), ServerStores(ServerRound), ServerMade) /\ Len(Tail(b)) = Len(b) - 1
      /\ Len(b) \in 1 .. ServerMade
      /\ Head(b) = ServerStores(ServerRound)[ServerMade - Len(b) + 1]
  BY <1>1, <1>2, LastOfTail
<1>4. buffer'["server"] = Tail(b) /\ buffer'["client"] = buffer["client"] /\ DOMAIN buffer' = Parties
  BY <1>1, <1>2 DEF Parties
<1>5. /\ ClientMade' = ClientMade /\ ServerMade' = ServerMade /\ ServerRound' = ServerRound
      /\ ClientReached' = ClientReached
  BY <1>1, <1>4 DEF ClientMade, ServerMade, ServerRound, ClientReached
<1>6. /\ r \in 0 .. 3 /\ r < ServerMade /\ ServerReached' = r + 1
      /\ Head(b) = ServerStores(ServerRound)[r + 1]
  <2>1. \A m \in 0 .. 4 : \A l \in 1 .. m :
          m - l \in 0 .. 3 /\ m - l < m /\ m - (l - 1) = (m - l) + 1
    OBVIOUS
  <2>2. ServerMade \in 0 .. 4
    BY ShmNumbers
  <2> QED
    BY <1>3, <1>4, <1>5, <2>1, <2>2 DEF ServerReached
<1>7. LastOf(buffer["server"], ServerStores(ServerRound), ServerMade)'
  BY <1>1, <1>3, <1>4, <1>5 DEF ServerStores
<1>8. LastOf(buffer["client"], ClientStores(ci), ClientMade)'
  BY <1>1, <1>4, <1>5 DEF HandshakeInv, LastOf, ClientStores
<1>9. /\ r = 0 => mem' = [mem EXCEPT !["head"] = Shm!Echo(ServerRound)]
      /\ r = 1 => mem' = [mem EXCEPT !["tail"] = Shm!Echo(ServerRound)]
      /\ r = 2 => mem' = [mem EXCEPT !["server_ready"] = 1]
      /\ r = 3 => mem' = [mem EXCEPT !["client_ready"] = 0]
  <2> HIDE DEF b, r
  <2>0. \A k \in 0 .. 3 : (k = 0 => k + 1 = 1) /\ (k = 1 => k + 1 = 2) /\ (k = 2 => k + 1 = 3) /\ (k = 3 => k + 1 = 4)
    OBVIOUS
  <2>1. ASSUME r = 0
        PROVE  mem' = [mem EXCEPT !["head"] = Shm!Echo(ServerRound)]
    <3>1. Head(b) = ServerStores(ServerRound)[1]
      BY <1>6, <2>0, <2>1
    <3>2. Head(b).loc = "head" /\ Head(b).val = Shm!Echo(ServerRound)
      BY <3>1 DEF ServerStores, ShmStore
    <3> QED
      BY <1>1, <3>2
  <2>2. ASSUME r = 1
        PROVE  mem' = [mem EXCEPT !["tail"] = Shm!Echo(ServerRound)]
    <3>1. Head(b) = ServerStores(ServerRound)[2]
      BY <1>6, <2>0, <2>2
    <3>2. Head(b).loc = "tail" /\ Head(b).val = Shm!Echo(ServerRound)
      BY <3>1 DEF ServerStores, ShmStore
    <3> QED
      BY <1>1, <3>2
  <2>3. ASSUME r = 2
        PROVE  mem' = [mem EXCEPT !["server_ready"] = 1]
    <3>1. Head(b) = ServerStores(ServerRound)[3]
      BY <1>6, <2>0, <2>3
    <3>2. Head(b).loc = "server_ready" /\ Head(b).val = 1
      BY <3>1 DEF ServerStores, ShmStore
    <3> QED
      BY <1>1, <3>2
  <2>4. ASSUME r = 3
        PROVE  mem' = [mem EXCEPT !["client_ready"] = 0]
    <3>1. Head(b) = ServerStores(ServerRound)[4]
      BY <1>6, <2>0, <2>4
    <3>2. Head(b).loc = "client_ready" /\ Head(b).val = 0
      BY <3>1 DEF ServerStores, ShmStore
    <3> QED
      BY <1>1, <3>2
  <2> QED
    BY <2>1, <2>2, <2>3, <2>4
<1>10. DOMAIN mem = ShmLocs /\ DOMAIN mem' = ShmLocs
  BY <1>1 DEF HandshakeInv, ShmTypeOK
<1>11. ShmTypeOK' /\ Printed'
  BY <1>1, <1>4, <1>10 DEF HandshakeInv, ShmTypeOK, Printed
<1>12. spc # "clear_client" \/ r # 3
  BY <1>6 DEF ServerMade
<1> HIDE DEF b, r
<1>13. ASSUME Asking
       PROVE  Asking'
  <2>1. r = 3 /\ spc \in {"wait", "done"}
    BY <1>6, <1>12, <1>13 DEF Asking, r
  <2> QED
    BY <1>1, <1>5, <1>6, <1>9, <1>10, <1>13, <2>1 DEF Asking, ShmLocs, r
<1>14. ASSUME Serving \/ Answering
       PROVE  /\ Answered = r /\ Answered' = r + 1 /\ ServerRound = ci
  <2>1. ~(si = ci /\ spc = "wait") /\ ci < Iterations /\ ci \in Nat
    BY <1>6, <1>14, ShmNumbers DEF Serving, Answering, r, HandshakeInv, ShmTypeOK
  <2>2. Answered = r /\ Answered' = r + 1
    BY <1>1, <1>6, <2>1 DEF Answered, r
  <2>3. ServerRound = ci
    <3>1. CASE si = ci
      <4>1. spc # "wait" /\ spc # "done"
        BY <2>1, <3>1 DEF HandshakeInv, ShmTypeOK
      <4> QED
        BY <3>1, <4>1 DEF ServerRound
    <3>2. CASE si = ci + 1
      <4>1. spc \in {"wait", "done"}
        BY <1>14, <2>1, <3>2 DEF Serving, Answering
      <4> QED
        BY <2>1, <3>2, <4>1 DEF ServerRound
    <3> QED
      BY <1>14, <3>1, <3>2 DEF Serving, Answering
  <2> QED
    BY <2>2, <2>3
<1>15. ASSUME Serving, r # 2
       PROVE  Serving'
  BY <1>1, <1>5, <1>6, <1>9, <1>10, <1>14, <1>15 DEF Serving, ShmLocs, r, Shm!Echo, Shm!Ping
<1>16. ASSUME Serving, r = 2
       PROVE  Answering'
  <2>1. spc # "set_server" /\ spc # "copy" /\ spc # "copy_tail" /\ spc # "echo" /\ spc # "echo_tail"
    BY <1>6, <1>16 DEF ServerMade
  <2>2. (si = ci /\ spc = "clear_client") \/ (si = ci + 1 /\ spc \in {"wait", "done"})
    <3>1. ~(si = ci /\ spc = "wait") /\ ~(si = ci /\ spc = "done")
      BY <1>6, <1>16, ShmNumbers DEF Serving, r, HandshakeInv, ShmTypeOK
    <3> QED
      BY <1>16, <2>1, <3>1 DEF Serving, HandshakeInv, ShmTypeOK
  <2> QED
    BY <1>1, <1>5, <1>6, <1>9, <1>10, <1>14, <1>16, <2>2
    DEF Serving, Answering, ShmLocs, r, Shm!Echo, Shm!Ping
<1>17. ASSUME Answering
       PROVE  Answering'
  <2>1. r = 3
    BY <1>6, <1>14, <1>17 DEF Answering
  <2> QED
    BY <1>1, <1>5, <1>6, <1>9, <1>10, <1>12, <1>14, <1>17, <2>1
    DEF Answering, ShmLocs, r, Shm!Echo
<1>18. (Asking \/ Serving \/ Answering)'
  BY <1>13, <1>15, <1>16, <1>17 DEF HandshakeInv
<1>19. ChannelStep
  BY <1>1 DEF ChannelStep, Shm!Channel!vars
<1> QED
  BY <1>7, <1>8, <1>11, <1>18, <1>19 DEF HandshakeInv

-------------------------------------------------------------------------------

HandshakeOK == program = "shmem" => HandshakeInv

\* main() has zeroed the memory and forked.
LEMMA HandshakeInit == Init => HandshakeOK /\ Shm!Channel!Init
PROOF
<1> SUFFICES ASSUME Init
             PROVE  HandshakeOK /\ Shm!Channel!Init
  OBVIOUS
<1>1. Shm!OwnInit
  BY DEF Init
<1>2. Shm!Channel!Init
  BY <1>1 DEF Shm!OwnInit, Shm!Channel!Init
<1>3. ASSUME program = "shmem"
      PROVE  HandshakeInv
  <2>1. Shm!MemoryInit
    BY <1>3 DEF Init
  <2>2. /\ buffer["client"] = << >> /\ buffer["server"] = << >>
        /\ DOMAIN buffer = Parties /\ DOMAIN mem = ShmLocs
    BY <2>1 DEF Shm!MemoryInit, Shm!Procs, Parties, ShmLocs
  <2>3. ShmTypeOK
    <3>1. Iterations \in Nat \ {0}
      BY StoreBuffersAssumption
    <3>2. << >> \in Seq(Texts)
      OBVIOUS
    <3> QED
      BY <1>1, <2>2, <3>1, <3>2 DEF Shm!OwnInit, ShmTypeOK
  <2>4. Printed
    BY <1>1 DEF Shm!OwnInit, Printed
  <2>5. ClientMade = 1 /\ ServerMade = 4 /\ ClientReached = 1 /\ ServerReached = 4
    BY <1>1, <2>2 DEF Shm!OwnInit, ClientMade, ServerMade, ClientReached, ServerReached
  <2>6. Asking
    BY <1>1, <2>1, <2>5 DEF Shm!OwnInit, Shm!MemoryInit, Asking
  <2>7. /\ LastOf(buffer["client"], ClientStores(ci), ClientMade)
        /\ LastOf(buffer["server"], ServerStores(ServerRound), ServerMade)
    <3>1. << >> \in Seq(ShmStores) /\ Len(<< >>) = 0
      OBVIOUS
    <3> QED
      BY <2>2, <2>5, <3>1, LastOfNone
  <2> QED
    BY <2>3, <2>4, <2>6, <2>7 DEF HandshakeInv
<1> QED
  BY <1>2, <1>3 DEF HandshakeOK

\* Every step of the two processes and of their buffers keeps the invariant and is
\* one of the abstract channel, or changes nothing there.
LEMMA HandshakeSteps ==
  ASSUME HandshakeInv,
         \/ Shm!ServerStep \/ Shm!ClientStep
         \/ \E p \in Shm!Procs : Shm!MemoryStep(p)
  PROVE  HandshakeInv' /\ ChannelStep
PROOF
<1>1. CASE Shm!ServerStep
  BY <1>1, ServerWaitOK, ServerCopyOK, ServerCopyTailOK, ServerEchoOK, ServerEchoTailOK,
     ServerReadyOK, ServerTakenOK DEF Shm!ServerStep
<1>2. CASE Shm!ClientStep
  BY <1>2, ClientCheckOwnOK, ClientCheckOtherOK, ClientSendOK, ClientSendTailOK,
     ClientReadyOK, ClientAwaitOK, ClientReceiveOK, ClientReceiveTailOK, ClientTakenOK,
     ReapOK DEF Shm!ClientStep
<1>3. CASE \E p \in Shm!Procs : Shm!MemoryStep(p)
  BY <1>3, ClientFlushOK, ServerFlushOK DEF Shm!Procs
<1> QED
  BY <1>1, <1>2, <1>3

\* The steps of the other programs leave the handshake's variables alone.
LEMMA HandshakeNext == HandshakeOK /\ [Next]_vars => HandshakeOK' /\ ChannelStep
PROOF
<1> SUFFICES ASSUME HandshakeOK, [Next]_vars
             PROVE  HandshakeOK' /\ ChannelStep
  OBVIOUS
<1>1. CASE Server \/ Client \/ \E p \in Shm!Procs : ShmMemory(p)
  <2>1. /\ program = "shmem" /\ program' = program
        /\ \/ Shm!ServerStep \/ Shm!ClientStep
           \/ \E p \in Shm!Procs : Shm!MemoryStep(p)
    BY <1>1 DEF Server, Client, ShmMemory, OnlyHandshake
  <2> QED
    BY <2>1, HandshakeSteps DEF HandshakeOK
<1>2. CASE \/ LockMain \/ \E t \in Peterson!Threads : LockThread(t) \/ LockMemory(t)
           \/ Experiment \/ CpuAtomic \/ CpuNonAtomic
  <2>1. program # "shmem" /\ UNCHANGED <<program, handshake>>
    BY <1>2 DEF Experiment, OnlyExperiment, LockMain, LockThread, LockMemory, OnlyLocked,
       CpuAtomic, CpuNonAtomic, OnlyReading
  <2> QED
    BY <2>1 DEF HandshakeOK, handshake, ChannelStep, Shm!Channel!vars
<1>3. CASE UNCHANGED vars
  <2>1. UNCHANGED <<program, mem, buffer, cpc, ci, reply, spc, si, temp, heard, answers>>
    BY <1>3 DEF vars, memory, handshake
  <2>2. UNCHANGED <<ClientMade, ServerMade, ServerRound, ClientReached, ServerReached, Answered>>
    BY <2>1 DEF ClientMade, ServerMade, ServerRound, ClientReached, ServerReached, Answered
  <2>3. ShmTypeOK /\ Printed => ShmTypeOK' /\ Printed'
    BY <2>1 DEF ShmTypeOK, Printed
  <2>4. LastOf(buffer["client"], ClientStores(ci), ClientMade)
          => LastOf(buffer["client"], ClientStores(ci), ClientMade)'
    BY <2>1, <2>2 DEF LastOf, ClientStores
  <2>5. LastOf(buffer["server"], ServerStores(ServerRound), ServerMade)
          => LastOf(buffer["server"], ServerStores(ServerRound), ServerMade)'
    BY <2>1, <2>2 DEF LastOf, ServerStores
  <2>6. (Asking => Asking') /\ (Serving => Serving') /\ (Answering => Answering')
    BY <2>1, <2>2 DEF Asking, Serving, Answering
  <2>7. HandshakeInv => HandshakeInv'
    BY <2>3, <2>4, <2>5, <2>6 DEF HandshakeInv
  <2> QED
    BY <2>1, <2>7 DEF HandshakeOK, ChannelStep, Shm!Channel!vars
<1> QED
  BY <1>1, <1>2, <1>3 DEF Next, Terminated

\* However many iterations: the flags of shmem.c, plain stores that wait in two store
\* buffers, pass whole messages, in order and each once, and every answer is the
\* echo of the question just asked.
THEOREM HandshakeIsRequestReply == Spec => ImplementsRequestReply
PROOF
<1>1. Init => HandshakeOK /\ Shm!Channel!Init
  BY HandshakeInit
<1>2. HandshakeOK /\ [Next]_vars => HandshakeOK' /\ [Shm!Channel!Next]_(Shm!Channel!vars)
  BY HandshakeNext DEF ChannelStep
<1> QED
  BY <1>1, <1>2, PTL DEF Spec, ImplementsRequestReply, Shm!ImplementsRequestReply, Shm!Channel!Spec
===============================================================================
