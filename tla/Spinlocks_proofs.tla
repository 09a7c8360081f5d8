---------------------------- MODULE Spinlocks_proofs ----------------------------
(***************************************************************************)
(* The spinlocks exclude and protect the counter, for every number of      *)
(* threads and iterations.  First, what the client program does under any  *)
(* lock.  Second, the sequentially consistent ticket lock of lecture-02,   *)
(* wrap-around of the tickets included, which also serves in order.  Third,*)
(* the two locks of lecture-06/memory_orders: with acquire and release     *)
(* they keep the counter free of data races and behave like the            *)
(* sequentially consistent ones, as long as tickets do not wrap around.    *)
(***************************************************************************)
EXTENDS MemoryOrders, TicketSpinlock, SequenceTheorems, FiniteSetTheorems, TLAPS

-------------------------------------------------------------------------------
(* The client of every lock: each of its steps keeps the client's          *)
(* invariant and is an increment, the report or a stutter of               *)
(* AtomicCounter, provided the lock excludes.  The proofs of the locks     *)
(* cite these lemmas once per action.                                      *)

ClientNames == {"none", "lock", "load", "store", "unlock", "done"}

\* What a step keeps and implements, for a lock whose own places are lockPc.
Good(lockPc) ==
  /\ ClientTypeOK(lockPc)'
  /\ ClientInv'
  /\ [Counter!Next]_(Counter!vars)

\* The client starts in a state of the invariant that maps to an initial state
\* of AtomicCounter.
LEMMA ClientInitOK ==
  ASSUME NEW L, ClientInit
  PROVE  ClientTypeOK(L) /\ ClientInv /\ MutualExclusion /\ Counter!Init
PROOF
<1> USE LockClientAssumption DEF ClientInit, Threads
<1>1. ClientTypeOK(L)
  BY DEF ClientTypeOK
<1>2. ClientInv
  BY DEF ClientInv, LoadIsFresh, LoopInv, MainInv
<1>3. MutualExclusion
  BY DEF MutualExclusion, InCriticalSection
<1>4. Counter!Init
  BY DEF Counter!Init
<1> QED
  BY <1>1, <1>2, <1>3, <1>4

\* A step of the lock's own code stutters in AtomicCounter.
LEMMA LockStepOK ==
  ASSUME NEW L, L \cap ClientNames = {},
         ClientTypeOK(L), ClientInv,
         NEW t \in Threads,
         NEW from \in L \cup {"lock"}, NEW to \in L \cup {"lock", "load"},
         LockStep(t, from, to)
  PROVE  Good(L)
PROOF
<1> USE LockClientAssumption DEF LockStep, Goto, Threads, ClientNames
<1>1. ClientTypeOK(L)'
  BY DEF ClientTypeOK
<1>2. ClientInv'
  BY DEF ClientTypeOK, ClientInv, LoadIsFresh, LoopInv, MainInv
<1>3. UNCHANGED Counter!vars
  BY DEF ClientTypeOK, Counter!vars
<1> QED
  BY <1>1, <1>2, <1>3 DEF Good

\* The load of shared_counter stutters.
LEMMA LoadOK ==
  ASSUME NEW L, L \cap ClientNames = {},
         ClientTypeOK(L), ClientInv,
         NEW t \in Threads, Load(t)
  PROVE  Good(L)
PROOF
<1> USE LockClientAssumption DEF Load, Goto, Threads, ClientNames
<1>1. ClientTypeOK(L)'
  BY DEF ClientTypeOK
<1>2. ClientInv'
  BY DEF ClientTypeOK, ClientInv, LoadIsFresh, LoopInv, MainInv
<1>3. UNCHANGED Counter!vars
  BY DEF ClientTypeOK, Counter!vars
<1> QED
  BY <1>1, <1>2, <1>3 DEF Good

\* The store is an increment, because nobody else is between a load and a
\* store.
LEMMA StoreOK ==
  ASSUME NEW L, L \cap ClientNames = {},
         ClientTypeOK(L), ClientInv, MutualExclusion,
         NEW t \in Threads, Store(t)
  PROVE  Good(L)
PROOF
<1> USE LockClientAssumption DEF Store, Goto, Threads, ClientNames
<1>1. ClientTypeOK(L)'
  <2>1. shared_counter' \in Nat
    BY DEF ClientTypeOK
  <2>2. pc' \in [Threads -> L \cup ClientNames]
    BY DEF ClientTypeOK
  <2> QED
    BY <2>1, <2>2 DEF ClientTypeOK
<1>2. \A u \in Threads : u # t => pc[u] # "store"
  BY DEF MutualExclusion, InCriticalSection
<1>3. ClientInv'
  BY <1>2 DEF ClientTypeOK, ClientInv, LoadIsFresh, LoopInv, MainInv
<1>4. Counter!Increment(t)
  <2>1. Iterations - iter[t] > 0
    BY DEF ClientTypeOK, ClientInv, LoopInv
  <2>2. shared_counter' = shared_counter + 1
    BY DEF ClientInv, LoadIsFresh
  <2> DEFINE Left == [u \in Threads |->
                        Iterations - iter[u] - (IF pc[u] = "unlock" THEN 1 ELSE 0)]
  <2>3. Left' = [Left EXCEPT ![t] = @ - 1]
    <3>1. \A u \in Threads : Left'[u] = [Left EXCEPT ![t] = @ - 1][u]
      BY SMTT(30) DEF ClientTypeOK
    <3> QED
      BY <3>1
  <2>4. Left[t] > 0
    BY <2>1 DEF ClientTypeOK
  <2>5. (mpc' = "done") = (mpc = "done")
    OBVIOUS
  <2> QED
    BY <2>2, <2>3, <2>4, <2>5 DEF Counter!Increment
<1> QED
  BY <1>1, <1>3, <1>4 DEF Good, Counter!Next

\* The end of an iteration stutters: the increment has been counted.
LEMMA EndIterationOK ==
  ASSUME NEW L, L \cap ClientNames = {},
         ClientTypeOK(L), ClientInv,
         NEW t \in Threads, EndIteration(t)
  PROVE  Good(L)
PROOF
<1> USE LockClientAssumption DEF EndIteration, Goto, Threads, ClientNames
<1>1. iter[t] < Iterations
  BY DEF ClientTypeOK, ClientInv, LoopInv
<1>2. ClientTypeOK(L)'
  BY <1>1, SMTT(30) DEF ClientTypeOK
<1>3. ClientInv'
  BY <1>1, SMTT(30) DEF ClientTypeOK, ClientInv, LoadIsFresh, LoopInv, MainInv
<1>4. UNCHANGED Counter!vars
  <2> DEFINE Left == [u \in Threads |->
                        Iterations - iter[u] - (IF pc[u] = "unlock" THEN 1 ELSE 0)]
  <2>1. \A u \in Threads : Left'[u] = Left[u]
    BY <1>1, SMTT(30) DEF ClientTypeOK
  <2>2. Left' = Left
    BY <2>1
  <2> QED
    BY <2>2 DEF Counter!vars
<1> QED
  BY <1>2, <1>3, <1>4 DEF Good

\* The steps of main: only the report shows.
LEMMA MainStepOK ==
  ASSUME NEW L, L \cap ClientNames = {},
         ClientTypeOK(L), ClientInv, MainStep
  PROVE  Good(L)
PROOF
<1> USE LockClientAssumption DEF Threads, ClientNames
<1>1. CASE Create
  <2> USE <1>1 DEF Create
  <2>1. started \in Threads /\ pc[started] = "none" /\ started < NumThreads
    BY DEF ClientTypeOK, ClientInv, MainInv
  <2>2. ClientTypeOK(L)'
    BY <2>1 DEF ClientTypeOK
  <2>3. ClientInv'
    BY <2>1 DEF ClientTypeOK, ClientInv, LoadIsFresh, LoopInv, MainInv
  <2>4. UNCHANGED Counter!vars
    BY <2>1 DEF ClientTypeOK, Counter!vars
  <2> QED
    BY <2>2, <2>3, <2>4 DEF Good
<1>2. CASE Join
  <2> USE <1>2 DEF Join
  <2>1. joined < NumThreads
    BY DEF ClientTypeOK, ClientInv, MainInv
  <2>2. ClientTypeOK(L)'
    BY <2>1 DEF ClientTypeOK
  <2>3. ClientInv'
    BY <2>1 DEF ClientTypeOK, ClientInv, LoadIsFresh, LoopInv, MainInv
  <2>4. UNCHANGED Counter!vars
    BY <2>1 DEF ClientTypeOK, Counter!vars
  <2> QED
    BY <2>2, <2>3, <2>4 DEF Good
<1>3. CASE Report
  <2> USE <1>3 DEF Report
  <2>1. ClientTypeOK(L)'
    BY DEF ClientTypeOK
  <2>2. ClientInv'
    BY DEF ClientTypeOK, ClientInv, LoadIsFresh, LoopInv, MainInv
  <2>3. \A t \in Threads : pc[t] = "done" /\ iter[t] = Iterations
    BY DEF ClientTypeOK, ClientInv, MainInv, LoopInv
  <2>4. Counter!Report
    BY <2>3 DEF ClientTypeOK, Counter!Report
  <2> QED
    BY <2>1, <2>2, <2>4 DEF Good, Counter!Next
<1> QED
  BY <1>1, <1>2, <1>3 DEF MainStep

\* A step that changes nothing of the client changes nothing of the counter.
LEMMA ClientStutterOK ==
  ASSUME NEW L, ClientTypeOK(L), ClientInv, UNCHANGED client
  PROVE  Good(L)
PROOF
  BY DEF client, Good, ClientTypeOK, ClientInv, LoadIsFresh, LoopInv, MainInv,
         Counter!vars, Threads

-------------------------------------------------------------------------------
(* The ticket lock of lecture-02: the circle of tickets                    *)

\* atomic_fetch_add wraps to 0 after the last ticket.
LEMMA SuccCases ==
  ASSUME NEW n \in Tickets
  PROVE  Succ(n) = IF n + 1 = TicketMod THEN 0 ELSE n + 1
PROOF
<1> USE TicketAssumption, LockClientAssumption DEF Tickets
<1>1. CASE n + 1 = TicketMod
  <2>1. TicketMod % TicketMod = 0
    OBVIOUS
  <2> QED
    BY <1>1, <2>1 DEF Succ
<1>2. CASE n + 1 # TicketMod
  <2>1. n + 1 \in 0 .. TicketMod - 1
    BY <1>2
  <2>2. \A a \in 0 .. TicketMod - 1 : a % TicketMod = a
    OBVIOUS
  <2>3. (n + 1) % TicketMod = n + 1
    BY <2>1, <2>2
  <2> QED
    BY <1>2, <2>3 DEF Succ
<1> QED
  BY <1>1, <1>2

\* Distances are below TicketMod, and no two tickets have the same one.
LEMMA DistanceType ==
  ASSUME NEW s \in Tickets, NEW n \in Tickets
  PROVE  /\ Distance(s, n) \in 0 .. TicketMod - 1
         /\ Distance(s, n) = 0 <=> n = s
         /\ \A m \in Tickets : Distance(s, m) = Distance(s, n) => m = n
  BY TicketAssumption, LockClientAssumption DEF Tickets, Distance

\* The next ticket to be drawn is one further away.
LEMMA DistanceDrawn ==
  ASSUME NEW s \in Tickets, NEW n \in Tickets, Distance(s, n) + 1 < TicketMod
  PROVE  Succ(n) \in Tickets /\ Distance(s, Succ(n)) = Distance(s, n) + 1
  BY TicketAssumption, LockClientAssumption, SuccCases DEF Tickets, Distance

\* Serving a ticket brings every other ticket one nearer.
LEMMA DistanceServed ==
  ASSUME NEW s \in Tickets, NEW n \in Tickets, n # s
  PROVE  Succ(s) \in Tickets /\ Distance(Succ(s), n) = Distance(s, n) - 1
  BY TicketAssumption, LockClientAssumption, SuccCases DEF Tickets, Distance

-------------------------------------------------------------------------------
(* The ticket lock of lecture-02: the invariant                            *)

\* The lock's place is none of the client's.
LEMMA Places == {"spin"} \cap ClientNames = {}
  BY DEF ClientNames

\* The tickets excluded from one another: at most one thread is inside.
LEMMA Excludes == IInv => MutualExclusion
  BY DEF IInv, TicketInv, ServedInv, MutualExclusion, InCriticalSection, Holding

\* A thread without a ticket leaves room for one: fewer than NumThreads tickets
\* are out, because each of them is held by another thread.
LEMMA TicketsLeft ==
  ASSUME IInv, NEW t \in Threads, ~Holding(t)
  PROVE  Ahead(next_ticket) < NumThreads
PROOF
<1> USE TicketAssumption, LockClientAssumption
<1>1. Ahead(next_ticket) \in 0 .. TicketMod - 1
  BY DistanceType DEF IInv, TypeOK, Ahead
<1> SUFFICES ASSUME NumThreads <= Ahead(next_ticket)
             PROVE  FALSE
  BY <1>1
<1> DEFINE Holder == [n \in 0 .. NumThreads - 1 |->
                        CHOOSE u \in Threads : Holding(u) /\ Ahead(ticket[u]) = n]
<1>2. ASSUME NEW n \in 0 .. NumThreads - 1
      PROVE  Holder[n] \in Threads \ {t} /\ Ahead(ticket[Holder[n]]) = n
  <2>1. \E u \in Threads : Holding(u) /\ Ahead(ticket[u]) = n
    BY <1>1 DEF IInv, TicketInv
  <2>2. /\ Holder[n] \in Threads
        /\ Holding(Holder[n])
        /\ Ahead(ticket[Holder[n]]) = n
    BY <2>1
  <2> QED
    BY <2>2
<1>3. Holder \in [0 .. NumThreads - 1 -> Threads \ {t}]
  BY <1>2
<1>4. \A x, y \in 0 .. NumThreads - 1 : Holder[x] = Holder[y] => x = y
  BY <1>2
<1>5. IsFiniteSet(Threads) /\ Cardinality(Threads) = NumThreads
  <2>1. 0 \in Int /\ NumThreads - 1 \in Int /\ ~(0 > NumThreads - 1)
    OBVIOUS
  <2>2. IsFiniteSet(0 .. NumThreads - 1)
    BY <2>1, FS_Interval
  <2>3. Cardinality(0 .. NumThreads - 1) = NumThreads - 1 - 0 + 1
    BY <2>1, FS_Interval
  <2> QED
    BY <2>2, <2>3 DEF Threads
<1>6. IsFiniteSet(Threads \ {t}) /\ Cardinality(Threads \ {t}) = NumThreads - 1
  BY <1>5, FS_RemoveElement
<1> HIDE DEF Holder
<1>7. \E x, y \in 0 .. NumThreads - 1 : x # y /\ Holder[x] = Holder[y]
  BY <1>3, <1>5, <1>6, FS_PigeonHole, SMTT(30) DEF Threads
<1> QED
  BY <1>4, <1>7

\* The initial states satisfy the invariant.
LEMMA InitInv == Init => IInv
PROOF
<1> SUFFICES ASSUME Init PROVE IInv
  OBVIOUS
<1> USE TicketAssumption, LockClientAssumption
<1>1. ClientTypeOK({"spin"}) /\ ClientInv
  BY ClientInitOK DEF Init
<1>2. \A t \in Threads : ~Holding(t) /\ ~InCriticalSection(t)
  BY DEF Init, ClientInit, Holding, InCriticalSection
<1>3. Ahead(next_ticket) = 0
  BY DEF Init, Ahead, Distance
<1> QED
  BY <1>1, <1>2, <1>3 DEF Init, IInv, TypeOK, TicketInv, ServedInv, Tickets

\* atomic_fetch_add: the new ticket is behind all others.
LEMMA DrawKeeps ==
  ASSUME IInv, NEW t \in Threads, DrawTicket(t)
  PROVE  IInv'
PROOF
<1> USE TicketAssumption, LockClientAssumption
<1>1. Good({"spin"})
  BY LockStepOK, Places DEF DrawTicket, IInv, TypeOK
<1>2. /\ pc[t] = "lock" /\ pc' = [pc EXCEPT ![t] = "spin"]
      /\ ticket' = [ticket EXCEPT ![t] = next_ticket]
      /\ next_ticket' = Succ(next_ticket)
      /\ now_serving' = now_serving
  BY DEF DrawTicket, LockStep, Goto
<1>3. /\ now_serving \in Tickets /\ next_ticket \in Tickets
      /\ ticket \in [Threads -> Tickets]
      /\ pc \in [Threads -> {"spin"} \cup ClientNames]
  BY DEF IInv, TypeOK, ClientTypeOK, ClientNames
<1>4. ~Holding(t)
  BY <1>2 DEF Holding
<1>5. Ahead(next_ticket) < NumThreads
  BY <1>4, TicketsLeft
<1>6. /\ Succ(next_ticket) \in Tickets
      /\ Distance(now_serving, Succ(next_ticket)) = Distance(now_serving, next_ticket) + 1
  BY <1>3, <1>5, DistanceDrawn, DistanceType DEF Ahead
<1>7. TypeOK'
  BY <1>1, <1>2, <1>3, <1>6 DEF Good, TypeOK
<1>8. \A u \in Threads : u # t => /\ Holding(u)' = Holding(u)
                                  /\ InCriticalSection(u)' = InCriticalSection(u)
                                  /\ ticket'[u] = ticket[u]
  BY <1>2, <1>3 DEF Holding, InCriticalSection
<1>9. Holding(t)' /\ ~InCriticalSection(t)' /\ ticket'[t] = next_ticket
  BY <1>2, <1>3 DEF Holding, InCriticalSection
<1>10. \A u \in Threads : Holding(u) =>
         Distance(now_serving, ticket[u]) < Distance(now_serving, next_ticket)
  BY DEF IInv, TicketInv, Ahead
<1>11. \A u, v \in Threads :
         Holding(u) /\ Holding(v) /\ ticket[u] = ticket[v] => u = v
  BY DEF IInv, TicketInv
<1>12. \A n \in 0 .. TicketMod - 1 : n < Distance(now_serving, next_ticket) =>
         \E u \in Threads : Holding(u) /\ Distance(now_serving, ticket[u]) = n
  BY DEF IInv, TicketInv, Ahead
<1>13. Distance(now_serving, next_ticket) \in Nat
       /\ \A u \in Threads : Distance(now_serving, ticket[u]) \in Nat
  BY <1>3, DistanceType
<1> HIDE DEF Distance
<1>14. \A u \in Threads : Holding(u)' => (Ahead(ticket[u]) < Ahead(next_ticket))'
  BY <1>2, <1>6, <1>8, <1>9, <1>10, <1>13 DEF Ahead
<1>15. \A u, v \in Threads :
         Holding(u)' /\ Holding(v)' /\ ticket'[u] = ticket'[v] => u = v
  <2>1. \A u \in Threads : u # t /\ Holding(u)' => ticket'[u] # ticket'[t]
    BY <1>8, <1>9, <1>10, <1>13
  <2> QED
    BY <1>8, <1>11, <2>1
<1>16. ASSUME NEW n \in 0 .. TicketMod - 1, n < Ahead(next_ticket)'
       PROVE  \E u \in Threads : Holding(u)' /\ (Ahead(ticket[u]) = n)'
  <2>1. n < Distance(now_serving, next_ticket) + 1
    BY <1>2, <1>6, <1>16 DEF Ahead
  <2>2. CASE n = Distance(now_serving, next_ticket)
    BY <2>2, <1>2, <1>9 DEF Ahead
  <2>3. CASE n < Distance(now_serving, next_ticket)
    <3>1. PICK u \in Threads : Holding(u) /\ Distance(now_serving, ticket[u]) = n
      BY <1>12, <2>3
    <3> QED
      BY <3>1, <1>2, <1>4, <1>8 DEF Ahead
  <2> QED
    BY <2>1, <2>2, <2>3, <1>13
<1>17. ServedInv'
  BY <1>2, <1>8, <1>9 DEF IInv, ServedInv
<1> QED
  BY <1>1, <1>7, <1>14, <1>15, <1>16, <1>17 DEF IInv, TicketInv, Good

\* spinlock_unlock: every other ticket comes one nearer.
LEMMA UnlockKeeps ==
  ASSUME IInv, NEW t \in Threads, Unlock(t)
  PROVE  IInv'
PROOF
<1> USE TicketAssumption, LockClientAssumption
<1>1. Good({"spin"})
  BY EndIterationOK, Places DEF Unlock, IInv, TypeOK
<1>2. /\ pc[t] = "unlock" /\ pc' \in {[pc EXCEPT ![t] = "lock"], [pc EXCEPT ![t] = "done"]}
      /\ ticket' = ticket /\ next_ticket' = next_ticket
      /\ now_serving' = Succ(now_serving)
  BY DEF Unlock, EndIteration, Goto
<1>3. /\ now_serving \in Tickets /\ next_ticket \in Tickets
      /\ ticket \in [Threads -> Tickets]
      /\ pc \in [Threads -> {"spin"} \cup ClientNames]
  BY DEF IInv, TypeOK, ClientTypeOK, ClientNames
<1>4. Holding(t) /\ ticket[t] = now_serving /\ ~Holding(t)' /\ ~InCriticalSection(t)'
  BY <1>2, <1>3 DEF Holding, InCriticalSection, IInv, ServedInv
<1>5. \A u \in Threads : u # t => /\ Holding(u)' = Holding(u)
                                  /\ InCriticalSection(u)' = InCriticalSection(u)
  BY <1>2, <1>3 DEF Holding, InCriticalSection
<1>6. \A u \in Threads : Holding(u) =>
         Distance(now_serving, ticket[u]) < Distance(now_serving, next_ticket)
  BY DEF IInv, TicketInv, Ahead
<1>7. \A u, v \in Threads :
         Holding(u) /\ Holding(v) /\ ticket[u] = ticket[v] => u = v
  BY DEF IInv, TicketInv
<1>8. \A n \in 0 .. TicketMod - 1 : n < Distance(now_serving, next_ticket) =>
         \E u \in Threads : Holding(u) /\ Distance(now_serving, ticket[u]) = n
  BY DEF IInv, TicketInv, Ahead
<1>9. Distance(now_serving, next_ticket) \in 0 .. TicketMod - 1
       /\ \A u \in Threads : Distance(now_serving, ticket[u]) \in Nat
  BY <1>3, DistanceType
<1>10. Distance(now_serving, ticket[t]) = 0
  BY <1>3, <1>4, DistanceType
<1>11. next_ticket # now_serving
  BY <1>3, <1>4, <1>6, <1>9, <1>10, DistanceType
<1>12. /\ Succ(now_serving) \in Tickets
       /\ Distance(Succ(now_serving), next_ticket) = Distance(now_serving, next_ticket) - 1
  BY <1>3, <1>11, DistanceServed
<1>13. ASSUME NEW u \in Threads, u # t, Holding(u)
       PROVE  Distance(Succ(now_serving), ticket[u]) = Distance(now_serving, ticket[u]) - 1
  <2>1. ticket[u] # now_serving
    BY <1>4, <1>7, <1>13
  <2> QED
    BY <1>3, <2>1, DistanceServed
<1>14. TypeOK'
  BY <1>1, <1>2, <1>3, <1>12 DEF Good, TypeOK
<1> HIDE DEF Distance
<1>15. \A u \in Threads : Holding(u)' => (Ahead(ticket[u]) < Ahead(next_ticket))'
  BY <1>2, <1>4, <1>5, <1>6, <1>9, <1>12, <1>13 DEF Ahead
<1>16. \A u, v \in Threads :
         Holding(u)' /\ Holding(v)' /\ ticket'[u] = ticket'[v] => u = v
  BY <1>2, <1>4, <1>5, <1>7
<1>17. ASSUME NEW n \in 0 .. TicketMod - 1, n < Ahead(next_ticket)'
       PROVE  \E u \in Threads : Holding(u)' /\ (Ahead(ticket[u]) = n)'
  <2>1. n + 1 < Distance(now_serving, next_ticket)
    BY <1>2, <1>9, <1>12, <1>17 DEF Ahead
  <2>2. PICK u \in Threads : Holding(u) /\ Distance(now_serving, ticket[u]) = n + 1
    BY <1>8, <1>9, <2>1
  <2>3. u # t
    BY <1>10, <2>2
  <2> QED
    BY <2>2, <2>3, <1>2, <1>5, <1>13 DEF Ahead
<1>18. ServedInv'
  <2>1. InCriticalSection(t)
    BY <1>2 DEF InCriticalSection
  <2>2. \A u \in Threads : InCriticalSection(u) => u = t
    BY <2>1, Excludes DEF MutualExclusion
  <2>3. \A u \in Threads : ~InCriticalSection(u)'
    BY <1>4, <1>5, <2>2
  <2> QED
    BY <2>3 DEF ServedInv
<1> QED
  BY <1>1, <1>14, <1>15, <1>16, <1>17, <1>18 DEF IInv, TicketInv, Good

\* A step that touches no ticket and lets no thread in or out but one that is
\* served.
LEMMA QuietKeeps ==
  ASSUME IInv, Good({"spin"}), UNCHANGED lock,
         \A t \in Threads :
           /\ Holding(t)' = Holding(t)
           /\ InCriticalSection(t)' => InCriticalSection(t) \/ ticket[t] = now_serving
  PROVE  IInv'
PROOF
<1>1. TypeOK'
  BY DEF Good, IInv, TypeOK, lock
<1>2. TicketInv'
  BY DEF IInv, TicketInv, lock, Ahead, Distance
<1>3. ServedInv'
  BY DEF IInv, ServedInv, lock
<1> QED
  BY <1>1, <1>2, <1>3 DEF IInv, Good

\* A round of the spin loop.
LEMMA SpinKeeps ==
  ASSUME IInv, NEW t \in Threads, Spin(t)
  PROVE  IInv'
PROOF
<1>1. Good({"spin"})
  BY LockStepOK, Places DEF Spin, IInv, TypeOK
<1>2. \A u \in Threads :
        /\ Holding(u)' = Holding(u)
        /\ InCriticalSection(u)' => InCriticalSection(u) \/ ticket[u] = now_serving
  BY DEF Spin, LockStep, Goto, Holding, InCriticalSection, IInv, TypeOK, ClientTypeOK
<1> QED
  BY <1>1, <1>2, QuietKeeps DEF Spin

\* The load and the store of shared_counter.
LEMMA ClientKeeps ==
  ASSUME IInv, NEW t \in Threads, ClientStep(t)
  PROVE  IInv'
PROOF
<1>1. Good({"spin"})
  BY LoadOK, StoreOK, Places, Excludes DEF ClientStep, IInv, TypeOK
<1>2. \A u \in Threads :
        /\ Holding(u)' = Holding(u)
        /\ InCriticalSection(u)' => InCriticalSection(u)
  BY DEF ClientStep, Load, Store, Goto, Holding, InCriticalSection, IInv, TypeOK, ClientTypeOK
<1> QED
  BY <1>1, <1>2, QuietKeeps DEF ClientStep

\* The steps of main.
LEMMA MainKeeps ==
  ASSUME IInv, Main
  PROVE  IInv'
PROOF
<1>1. Good({"spin"})
  BY MainStepOK, Places DEF Main, IInv, TypeOK
<1>2. \A u \in Threads :
        Holding(u)' = Holding(u) /\ InCriticalSection(u)' = InCriticalSection(u)
  <2>1. CASE Create
    <3>1. started \in Threads /\ pc[started] = "none"
      BY <2>1, LockClientAssumption
      DEF Create, IInv, TypeOK, ClientTypeOK, ClientInv, MainInv, Threads
    <3> QED
      BY <2>1, <3>1 DEF Create, Holding, InCriticalSection, IInv, TypeOK, ClientTypeOK
  <2>2. CASE Join \/ Report
    BY <2>2 DEF Join, Report, Holding, InCriticalSection
  <2> QED
    BY <2>1, <2>2 DEF Main, MainStep
<1> QED
  BY <1>1, <1>2, QuietKeeps DEF Main

\* Every step keeps the invariant.
LEMMA NextInv == IInv /\ [Next]_vars => IInv'
PROOF
<1> SUFFICES ASSUME IInv, [Next]_vars PROVE IInv'
  OBVIOUS
<1>1. CASE Main
  BY <1>1, MainKeeps
<1>2. ASSUME NEW t \in Threads, Thread(t) PROVE IInv'
  BY <1>2, DrawKeeps, SpinKeeps, ClientKeeps, UnlockKeeps DEF Thread
<1>3. CASE UNCHANGED vars
  <2>1. Good({"spin"})
    BY <1>3, ClientStutterOK DEF IInv, TypeOK, vars
  <2>2. \A u \in Threads :
          Holding(u)' = Holding(u) /\ InCriticalSection(u)' = InCriticalSection(u)
    BY <1>3 DEF vars, client, Holding, InCriticalSection
  <2> QED
    BY <1>3, <2>1, <2>2, QuietKeeps DEF vars
<1> QED
  BY <1>1, <1>2, <1>3 DEF Next, Terminated

\* The invariant holds of every reachable state.
LEMMA Invariance == Spec => []IInv
  BY InitInv, NextInv, PTL DEF Spec

-------------------------------------------------------------------------------
(* The ticket lock of lecture-02: exclusion and the count                  *)

\* spinlock_lock excludes: no two threads are between spinlock_lock and
\* spinlock_unlock at once, also after the tickets have wrapped around.
THEOREM TicketLockExcludes == Spec => []MutualExclusion
  BY Invariance, Excludes, PTL

\* Every step is a step of AtomicCounter or a stutter.
LEMMA NextCounts == IInv /\ [Next]_vars => [Counter!Next]_(Counter!vars)
PROOF
<1> SUFFICES ASSUME IInv, [Next]_vars PROVE Good({"spin"})
  BY DEF Good
<1> USE Places, Excludes DEF IInv, TypeOK
<1>1. CASE Main
  BY <1>1, MainStepOK DEF Main
<1>2. ASSUME NEW t \in Threads, Thread(t) PROVE Good({"spin"})
  <2>1. CASE DrawTicket(t)
    BY <2>1, LockStepOK DEF DrawTicket
  <2>2. CASE Spin(t)
    BY <2>2, LockStepOK DEF Spin
  <2>3. CASE ClientStep(t)
    BY <2>3, LoadOK, StoreOK DEF ClientStep
  <2>4. CASE Unlock(t)
    BY <2>4, EndIterationOK DEF Unlock
  <2> QED
    BY <1>2, <2>1, <2>2, <2>3, <2>4 DEF Thread
<1>3. CASE UNCHANGED vars
  BY <1>3, ClientStutterOK DEF vars
<1> QED
  BY <1>1, <1>2, <1>3 DEF Next, Terminated

\* No increment is lost under the ticket lock: the program with its plain `++'
\* implements the atomic counter.
THEOREM TicketLockCounts == Spec => ImplementsAtomicCounter
PROOF
<1>1. Init => Counter!Init
  BY ClientInitOK DEF Init
<1> QED
  BY <1>1, Invariance, NextCounts, PTL DEF Spec, ImplementsAtomicCounter, Counter!Spec

-------------------------------------------------------------------------------
(* The ticket lock of lecture-02: first come, first served                 *)

\* The line is the sequence of the threads with tickets, nearest ticket first.
LEMMA LineIs ==
  ASSUME IInv
  PROVE  /\ Line \in [1 .. Ahead(next_ticket) -> Threads]
         /\ \A k \in 1 .. Ahead(next_ticket) :
              Holding(Line[k]) /\ Ahead(ticket[Line[k]]) = k - 1
PROOF
<1>1. Ahead(next_ticket) \in 0 .. TicketMod - 1
  BY DistanceType DEF IInv, TypeOK, Ahead
<1>2. ASSUME NEW k \in 1 .. Ahead(next_ticket)
      PROVE  /\ Line[k] \in Threads
             /\ Holding(Line[k])
             /\ Ahead(ticket[Line[k]]) = k - 1
  <2>1. k - 1 \in 0 .. TicketMod - 1 /\ k - 1 < Ahead(next_ticket)
    BY <1>1, TicketAssumption, LockClientAssumption
  <2>2. \E t \in Threads : Holding(t) /\ Ahead(ticket[t]) = k - 1
    BY <2>1 DEF IInv, TicketInv
  <2>3. Line[k] = CHOOSE t \in Threads : Holding(t) /\ Ahead(ticket[t]) = k - 1
    BY DEF Line
  <2> QED
    BY <2>2, <2>3
<1>3. Line = [k \in 1 .. Ahead(next_ticket) |-> Line[k]]
  BY DEF Line
<1> QED
  BY <1>2, <1>3

\* A thread with a ticket is in the line exactly once, at its distance.
FoundOnce ==
  \A t \in Threads : Holding(t) =>
    /\ Ahead(ticket[t]) + 1 \in 1 .. Ahead(next_ticket)
    /\ \A k \in 1 .. Ahead(next_ticket) : Line[k] = t <=> k = Ahead(ticket[t]) + 1

\* The invariant puts every thread with a ticket in one place of the line.
LEMMA LineFinds == IInv => FoundOnce
PROOF
<1> SUFFICES ASSUME IInv, NEW t \in Threads, Holding(t)
             PROVE  /\ Ahead(ticket[t]) + 1 \in 1 .. Ahead(next_ticket)
                    /\ \A k \in 1 .. Ahead(next_ticket) :
                         Line[k] = t <=> k = Ahead(ticket[t]) + 1
  BY DEF FoundOnce
<1>1. Ahead(ticket[t]) \in 0 .. TicketMod - 1 /\ Ahead(next_ticket) \in 0 .. TicketMod - 1
  BY DistanceType DEF IInv, TypeOK, Ahead
<1>2. Ahead(ticket[t]) < Ahead(next_ticket)
  BY DEF IInv, TicketInv
<1>3. ASSUME NEW k \in 1 .. Ahead(next_ticket), k = Ahead(ticket[t]) + 1
      PROVE  Line[k] = t
  <2>1. /\ Line[k] \in Threads /\ Holding(Line[k])
        /\ Ahead(ticket[Line[k]]) = Ahead(ticket[t])
    BY <1>1, <1>3, LineIs
  <2>2. ticket[Line[k]] \in Tickets /\ ticket[t] \in Tickets /\ now_serving \in Tickets
    BY <2>1 DEF IInv, TypeOK
  <2>3. ticket[Line[k]] = ticket[t]
    BY <2>1, <2>2, DistanceType DEF Ahead
  <2> QED
    BY <2>1, <2>3 DEF IInv, TicketInv
<1>4. \A k \in 1 .. Ahead(next_ticket) : Line[k] = t => k = Ahead(ticket[t]) + 1
  BY <1>1, LineIs
<1> QED
  BY <1>1, <1>2, <1>3, <1>4, TicketAssumption, LockClientAssumption

\* Two lines of the same length with the same threads in the same places.
LEMMA LineSame ==
  ASSUME IInv, IInv', (Ahead(next_ticket))' = Ahead(next_ticket),
         \A t \in Threads : Holding(t) =>
           Holding(t)' /\ (Ahead(ticket[t]))' = Ahead(ticket[t])
  PROVE  Line' = Line
PROOF
<1>1. Ahead(next_ticket) \in 0 .. TicketMod - 1
  BY DistanceType DEF IInv, TypeOK, Ahead
<1>2. /\ Line' \in [1 .. Ahead(next_ticket) -> Threads]
      /\ Line \in [1 .. Ahead(next_ticket) -> Threads]
  <2>1. (IInv => Line \in [1 .. Ahead(next_ticket) -> Threads])'
    BY LineIs, PTL
  <2> QED
    BY <2>1, LineIs
<1>3. FoundOnce'
  <2>1. (IInv => FoundOnce)'
    BY LineFinds, PTL
  <2> QED
    BY <2>1
<1>4. ASSUME NEW k \in 1 .. Ahead(next_ticket)
      PROVE  Line'[k] = Line[k]
  <2>1. PICK t \in Threads : t = Line[k]
    BY LineIs
  <2>2. Holding(t) /\ Ahead(ticket[t]) = k - 1
    BY <2>1, LineIs
  <2>3. Holding(t)' /\ (Ahead(ticket[t]))' = k - 1
    BY <2>2
  <2>4. k = (k - 1) + 1
    BY <1>1
  <2>5. Line'[k] = t
    BY <1>3, <2>3, <2>4 DEF FoundOnce
  <2> QED
    BY <2>1, <2>5
<1>5. Line = [k \in 1 .. Ahead(next_ticket) |-> Line[k]]
      /\ Line' = [k \in 1 .. Ahead(next_ticket) |-> Line'[k]]
  BY <1>2
<1> QED
  BY <1>4, <1>5

\* At the start nobody is in line and the lock is free.
LEMMA FifoInit == Init => Fifo!Init
PROOF
<1> SUFFICES ASSUME Init PROVE Fifo!Init
  OBVIOUS
<1>1. Ahead(next_ticket) = 0
  BY DEF Init, Ahead, Distance
<1>2. Line = << >>
  BY <1>1 DEF Line
<1>3. \A t \in Threads : ~InCriticalSection(t)
  BY DEF Init, ClientInit, InCriticalSection
<1> QED
  BY <1>2, <1>3 DEF Fifo!Init

\* A step that draws and serves no ticket leaves the line alone.
LEMMA QuietLine ==
  ASSUME IInv, IInv', UNCHANGED lock, \A t \in Threads : Holding(t) => Holding(t)'
  PROVE  Line' = Line
PROOF
<1>1. (Ahead(next_ticket))' = Ahead(next_ticket)
  BY DEF lock, Ahead
<1>2. \A t \in Threads : (Ahead(ticket[t]))' = Ahead(ticket[t])
  BY DEF lock, Ahead
<1> QED
  BY <1>1, <1>2, LineSame

\* Drawing a ticket joins the line at its end.
LEMMA DrawArrives ==
  ASSUME IInv, NEW t \in Threads, DrawTicket(t)
  PROVE  Fifo!Arrive(t)
PROOF
<1> DEFINE A == Ahead(next_ticket)
<1> USE TicketAssumption, LockClientAssumption
<1>1. /\ pc[t] = "lock" /\ pc' = [pc EXCEPT ![t] = "spin"]
      /\ ticket' = [ticket EXCEPT ![t] = next_ticket]
      /\ next_ticket' = Succ(next_ticket) /\ now_serving' = now_serving
      /\ next_ticket \in Tickets /\ now_serving \in Tickets
      /\ ticket \in [Threads -> Tickets]
      /\ pc \in [Threads -> {"spin"} \cup ClientNames]
  BY DEF DrawTicket, LockStep, Goto, IInv, TypeOK, ClientTypeOK, ClientNames
<1>2. ~Holding(t)
  BY <1>1 DEF Holding
<1>3. A \in Nat /\ A + 1 < TicketMod
  BY <1>1, <1>2, TicketsLeft, DistanceType DEF Ahead
<1>4. (Ahead(next_ticket))' = A + 1
  BY <1>1, <1>3, DistanceDrawn DEF Ahead
<1>5. /\ \A u \in Threads \ {t} : Holding(u) => Holding(u)' /\ (Ahead(ticket[u]))' = Ahead(ticket[u])
      /\ Holding(t)' /\ (Ahead(ticket[t]))' = A
  BY <1>1 DEF Holding, Ahead
<1>6. IInv'
  BY DrawKeeps
<1>7. FoundOnce'
  <2>1. (IInv => FoundOnce)'
    BY LineFinds, PTL
  <2> QED
    BY <1>6, <2>1
<1>8. Line \in [1 .. A -> Threads]
  BY LineIs
<1>9. ASSUME NEW k \in 1 .. A
      PROVE  Line'[k] = Line[k]
  <2>1. PICK u \in Threads : u = Line[k]
    BY <1>8
  <2>2. Holding(u) /\ Ahead(ticket[u]) = k - 1
    BY <2>1, LineIs
  <2>3. Holding(u)' /\ (Ahead(ticket[u]))' = k - 1
    BY <1>2, <1>5, <2>2
  <2>4. k = (k - 1) + 1 /\ k \in 1 .. (A + 1)
    BY <1>3
  <2>5. Line'[k] = u
    BY <1>4, <1>7, <2>3, <2>4 DEF FoundOnce
  <2> QED
    BY <2>1, <2>5
<1>10. Line'[A + 1] = t
  BY <1>3, <1>4, <1>5, <1>7 DEF FoundOnce
<1>11. Line' = [k \in 1 .. A + 1 |-> Line'[k]]
  BY <1>4 DEF Line
<1>12. Line \in Seq(Threads) /\ Len(Line) = A /\ DOMAIN Line = 1 .. A
  BY <1>3, <1>8, LenProperties
<1> HIDE DEF A
<1>13. Line' \in [1 .. A + 1 -> Threads]
  <2>1. \A k \in 1 .. A + 1 : Line'[k] \in Threads
    <3>1. \A k \in 1 .. A + 1 : k = A + 1 \/ k \in 1 .. A
      BY <1>3
    <3> QED
      BY <3>1, <1>8, <1>9, <1>10
  <2> QED
    BY <1>11, <2>1
<1>14. Line' = Append(Line, t)
  <2>1. Line' \in Seq(Threads) /\ Len(Line') = A + 1
    BY <1>3, <1>13, LenProperties
  <2>2. Append(Line, t) \in Seq(Threads) /\ Len(Append(Line, t)) = A + 1
    BY <1>12, AppendProperties
  <2>3. ASSUME NEW k \in 1 .. A + 1
        PROVE  Line'[k] = Append(Line, t)[k]
    <3>1. CASE k = A + 1
      BY <3>1, <1>10, <1>12, AppendProperties
    <3>2. CASE k \in 1 .. A
      BY <3>2, <1>9, <1>12, AppendProperties
    <3>3. k = A + 1 \/ k \in 1 .. A
      BY <1>3
    <3> QED
      BY <3>1, <3>2, <3>3
  <2> QED
    BY <2>1, <2>2, <2>3, SeqEqual
<1>15. \A k \in DOMAIN Line : Line[k] # t
  BY <1>2, <1>12, LineIs DEF A
<1>16. \A u \in Threads : InCriticalSection(u)' = InCriticalSection(u)
  BY <1>1 DEF InCriticalSection
<1> QED
  BY <1>14, <1>15, <1>16 DEF Fifo!Arrive

\* The thread at the head of the line is let in when nobody is inside.
LEMMA SpinEnters ==
  ASSUME IInv, NEW t \in Threads, Spin(t)
  PROVE  Fifo!Enter \/ UNCHANGED Fifo!vars
PROOF
<1> USE TicketAssumption, LockClientAssumption
<1>1. IInv'
  BY SpinKeeps
<1>2. \A u \in Threads : Holding(u) => Holding(u)'
  BY DEF Spin, LockStep, Goto, Holding, IInv, TypeOK, ClientTypeOK
<1>3. Line' = Line
  BY <1>1, <1>2, QuietLine DEF Spin
<1>4. CASE now_serving # ticket[t]
  <2>1. UNCHANGED pc
    BY <1>4 DEF Spin, LockStep, Goto, IInv, TypeOK, ClientTypeOK
  <2> QED
    BY <1>3, <2>1 DEF Fifo!vars, InCriticalSection
<1>5. CASE now_serving = ticket[t]
  <2>1. Holding(t) /\ ~InCriticalSection(t) /\ InCriticalSection(t)'
    BY <1>5 DEF Spin, LockStep, Goto, Holding, InCriticalSection, IInv, TypeOK, ClientTypeOK
  <2>2. \A u \in Threads : ~InCriticalSection(u)
    <3>1. \A u \in Threads : InCriticalSection(u) => Holding(u) /\ ticket[u] = ticket[t]
      BY <1>5 DEF IInv, ServedInv, InCriticalSection, Holding
    <3> QED
      BY <2>1, <3>1 DEF IInv, TicketInv
  <2>3. Ahead(next_ticket) \in Nat /\ 1 \in 1 .. Ahead(next_ticket)
    BY <2>1, LineFinds, DistanceType DEF FoundOnce, IInv, TypeOK, Ahead
  <2>4. Line # << >>
    BY <2>3, LineIs
  <2> QED
    BY <1>3, <2>1, <2>2, <2>4 DEF Fifo!Enter
<1> QED
  BY <1>4, <1>5

\* spinlock_unlock takes the head off the line.
LEMMA UnlockLeaves ==
  ASSUME IInv, NEW t \in Threads, Unlock(t)
  PROVE  Fifo!Leave
PROOF
<1> DEFINE A == Ahead(next_ticket)
<1> USE TicketAssumption, LockClientAssumption
<1>1. /\ pc[t] = "unlock" /\ pc' \in {[pc EXCEPT ![t] = "lock"], [pc EXCEPT ![t] = "done"]}
      /\ ticket' = ticket /\ next_ticket' = next_ticket
      /\ now_serving' = Succ(now_serving)
      /\ next_ticket \in Tickets /\ now_serving \in Tickets
      /\ ticket \in [Threads -> Tickets]
      /\ pc \in [Threads -> {"spin"} \cup ClientNames]
  BY DEF Unlock, EndIteration, Goto, IInv, TypeOK, ClientTypeOK, ClientNames
<1>2. InCriticalSection(t) /\ Holding(t) /\ ticket[t] = now_serving /\ Ahead(ticket[t]) = 0
  BY <1>1, DistanceType DEF InCriticalSection, Holding, IInv, ServedInv, Ahead
<1>3. \A u \in Threads : u # t => ~InCriticalSection(u) /\ ~InCriticalSection(u)'
  <2>1. \A u \in Threads : u # t => ~InCriticalSection(u)
    BY <1>2, Excludes DEF MutualExclusion
  <2> QED
    BY <1>1, <2>1 DEF InCriticalSection
<1>4. ~InCriticalSection(t)'
  BY <1>1 DEF InCriticalSection
<1>5. A \in Nat /\ A > 0
  BY <1>1, <1>2, DistanceType DEF IInv, TicketInv, Ahead
<1>6. (Ahead(next_ticket))' = A - 1
  <2>1. next_ticket # now_serving
    BY <1>1, <1>5, DistanceType DEF Ahead
  <2> QED
    BY <1>1, <2>1, DistanceServed DEF Ahead
<1>7. ASSUME NEW u \in Threads, u # t, Holding(u)
      PROVE  Holding(u)' /\ (Ahead(ticket[u]))' = Ahead(ticket[u]) - 1
  <2>1. ticket[u] # now_serving
    BY <1>2, <1>7 DEF IInv, TicketInv
  <2>2. (Ahead(ticket[u]))' = Ahead(ticket[u]) - 1
    BY <1>1, <2>1, DistanceServed DEF Ahead
  <2> QED
    BY <1>1, <1>7, <2>2 DEF Holding
<1>8. FoundOnce'
  <2>1. (IInv => FoundOnce)'
    BY LineFinds, PTL
  <2> QED
    BY <2>1, UnlockKeeps
<1>9. Line \in [1 .. A -> Threads]
  BY LineIs
<1>10. ASSUME NEW k \in 1 .. A - 1
       PROVE  Line'[k] = Line[k + 1]
  <2>1. k + 1 \in 1 .. A
    BY <1>5
  <2>2. PICK u \in Threads : u = Line[k + 1]
    BY <1>9, <2>1
  <2>3. Holding(u) /\ Ahead(ticket[u]) = k
    BY <2>1, <2>2, LineIs
  <2>4. u # t
    BY <1>2, <2>3
  <2>5. Holding(u)' /\ (Ahead(ticket[u]))' = k - 1
    BY <1>7, <2>3, <2>4
  <2>6. k = (k - 1) + 1
    BY <1>5
  <2>7. Line'[k] = u
    BY <1>6, <1>8, <2>5, <2>6 DEF FoundOnce
  <2> QED
    BY <2>2, <2>7
<1>11. Line' = [k \in 1 .. A - 1 |-> Line'[k]]
  BY <1>6 DEF Line
<1>12. Line \in Seq(Threads) /\ Len(Line) = A
  BY <1>5, <1>9, LenProperties
<1> HIDE DEF A
<1>13. Line' = Tail(Line)
  BY <1>5, <1>10, <1>11, <1>12
<1> QED
  BY <1>2, <1>3, <1>4, <1>13 DEF Fifo!Leave

\* Every step is a step of FifoLock or a stutter.
LEMMA NextFifo == IInv /\ [Next]_vars => [Fifo!Next]_(Fifo!vars)
PROOF
<1> SUFFICES ASSUME IInv, [Next]_vars PROVE Fifo!Next \/ UNCHANGED Fifo!vars
  OBVIOUS
<1>1. ASSUME NEW t \in Threads, Thread(t)
      PROVE  Fifo!Next \/ UNCHANGED Fifo!vars
  <2>1. CASE ClientStep(t)
    <3>1. \A u \in Threads : /\ Holding(u) => Holding(u)'
                             /\ InCriticalSection(u)' = InCriticalSection(u)
      BY <2>1 DEF ClientStep, Load, Store, Goto, Holding, InCriticalSection,
                  IInv, TypeOK, ClientTypeOK
    <3>2. Line' = Line
      BY <2>1, <3>1, ClientKeeps, QuietLine DEF ClientStep
    <3> QED
      BY <3>1, <3>2 DEF Fifo!vars
  <2> QED
    BY <1>1, <2>1, DrawArrives, SpinEnters, UnlockLeaves DEF Thread, Fifo!Next
<1>2. CASE Main
  <2>1. \A u \in Threads : /\ Holding(u) => Holding(u)'
                           /\ InCriticalSection(u)' = InCriticalSection(u)
    <3>1. CASE Create
      <4>1. started \in Threads /\ pc[started] = "none"
        BY <3>1, LockClientAssumption
        DEF Create, IInv, TypeOK, ClientTypeOK, ClientInv, MainInv, Threads
      <4> QED
        BY <3>1, <4>1 DEF Create, Holding, InCriticalSection, IInv, TypeOK, ClientTypeOK
    <3>2. CASE Join \/ Report
      BY <3>2 DEF Join, Report, Holding, InCriticalSection
    <3> QED
      BY <1>2, <3>1, <3>2 DEF Main, MainStep
  <2>2. Line' = Line
    BY <1>2, <2>1, MainKeeps, QuietLine DEF Main
  <2> QED
    BY <2>1, <2>2 DEF Fifo!vars
<1>3. CASE UNCHANGED vars
  BY <1>3 DEF vars, client, lock, Fifo!vars, Line, Holding, Ahead, InCriticalSection
<1> QED
  BY <1>1, <1>2, <1>3 DEF Next, Terminated

\* The lock is fair: threads enter in the order of their fetch_add, for every
\* number of threads below the number of tickets and across the wrap-around.
THEOREM TicketLockIsFifo == Spec => ImplementsFifoLock
  BY FifoInit, Invariance, NextFifo, PTL DEF Spec, ImplementsFifoLock, Fifo!Spec

-------------------------------------------------------------------------------
(* The locks of lecture-06: the invariant                                  *)

Inside == {t \in Threads : InCriticalSection(t)}

\* Whoever is inside knows every store, and the last of them is the counter.
Synchronised ==
  /\ \A t \in Inside : seen[t] = Latest
  /\ history[Latest] = shared_counter

\* The test-and-set lock: the flag is set while a thread is inside, and when it is
\* clear, whoever finds it so learns of every store.
TasInv ==
  /\ ClientTypeOK({}) /\ WeakTypeOK /\ flag \in BOOLEAN /\ flag_view \in 1 .. Latest
  /\ ClientInv /\ Synchronised /\ MutualExclusion
  /\ Inside # {} => flag
  /\ ~flag => flag_view = Latest

Serving == Len(serving) - 1

\* The tickets that have been drawn, each by a thread in one of its iterations
Drawn ==
  {d \in Threads \X (0 .. Iterations - 1) :
     d[2] < iter[d[1]] \/ (d[2] = iter[d[1]] /\ Holding(d[1]))}

\* The ticket lock: the tickets out are different, they are served in order, and
\* when nobody is inside, whoever reads the latest now_serving learns of every
\* store.
WeakTicketInv ==
  /\ ClientTypeOK({"spin"}) /\ WeakTypeOK /\ upcoming \in Nat
  /\ serving \in Seq(1 .. Latest) /\ serving # << >>
  /\ serving_seen \in [Threads -> 1 .. Len(serving)] /\ own_ticket \in [Threads -> Nat]
  /\ ClientInv /\ Synchronised
  /\ \A t \in Threads : Holding(t) => own_ticket[t] \in Serving .. upcoming - 1
  /\ \A t, u \in Threads : Holding(t) /\ Holding(u) /\ own_ticket[t] = own_ticket[u] => t = u
  /\ \A t \in Inside : own_ticket[t] = Serving
  /\ Inside = {} => serving[Len(serving)] = Latest
  /\ Serving <= upcoming /\ IsFiniteSet(Drawn) /\ Cardinality(Drawn) = upcoming

\* The invariant of the two programs.
Inv ==
  /\ program = "stupid_spinlock" => TasInv
  /\ program = "smart_spinlock" => WeakTicketInv
  /\ program \in {"stupid_spinlock", "smart_spinlock"}

-------------------------------------------------------------------------------
(* The locks of lecture-06: the client's steps in the weak memory          *)

\* The load of a thread that knows every store returns the counter's value.
LEMMA WeakLoadOK ==
  ASSUME NEW L, ClientTypeOK(L), WeakTypeOK, Synchronised, NEW t \in Threads, WeakLoad(t)
  PROVE  Load(t) /\ UNCHANGED weak /\ Inside' = Inside /\ Synchronised'
PROOF
<1>1. t \in Inside /\ seen[t] = Latest /\ Latest \in Nat
  BY DEF WeakLoad, Goto, Inside, InCriticalSection, Synchronised, WeakTypeOK, Latest
<1>2. Load(t)
  <2>1. PICK v \in seen[t] .. Latest : reg' = [reg EXCEPT ![t] = history[v]]
    BY DEF WeakLoad
  <2>2. v = Latest
    BY <1>1, <2>1
  <2>3. history[v] = shared_counter
    BY <2>2 DEF Synchronised
  <2> QED
    BY <2>1, <2>3 DEF WeakLoad, Load
<1>3. pc \in [Threads -> L \cup ClientNames] /\ pc[t] = "load" /\ pc' = [pc EXCEPT ![t] = "store"]
  BY DEF WeakLoad, Goto, ClientTypeOK, ClientNames
<1>4. Inside' = Inside
  BY <1>3 DEF Inside, InCriticalSection
<1>5. UNCHANGED <<weak, shared_counter>>
  BY DEF WeakLoad
<1> QED
  BY <1>2, <1>4, <1>5 DEF Synchronised, weak, Latest

\* A store by the one thread inside is known to every thread inside.
LEMMA WeakStoreOK ==
  ASSUME NEW L, ClientTypeOK(L), WeakTypeOK, Synchronised, MutualExclusion,
         NEW t \in Threads, WeakStore(t)
  PROVE  /\ Store(t) /\ Inside' = Inside /\ t \in Inside
         /\ WeakTypeOK' /\ Synchronised' /\ Latest' = Latest + 1
PROOF
<1>1. /\ Store(t) /\ history' = Append(history, reg[t] + 1)
      /\ seen' = [seen EXCEPT ![t] = Latest + 1]
  BY DEF WeakStore
<1>2. /\ pc \in [Threads -> L \cup ClientNames] /\ pc[t] = "store"
      /\ pc' = [pc EXCEPT ![t] = "unlock"] /\ shared_counter' = reg[t] + 1
      /\ reg \in [Threads -> Nat]
  BY <1>1 DEF Store, Goto, ClientTypeOK, ClientNames
<1>3. Inside' = Inside /\ t \in Inside
  BY <1>2 DEF Inside, InCriticalSection
<1>4. /\ history \in Seq(Nat) /\ Latest = Len(history) /\ Latest \in Nat \ {0}
      /\ seen \in [Threads -> 1 .. Latest]
  BY EmptySeq DEF WeakTypeOK, Latest
<1>5. /\ history' \in Seq(Nat) /\ Latest' = Latest + 1 /\ history'[Latest + 1] = reg[t] + 1
      /\ history' # << >>
  <2>1. reg[t] + 1 \in Nat
    BY <1>2
  <2>2. history' \in Seq(Nat) /\ Len(history') = Latest + 1 /\ history'[Latest + 1] = reg[t] + 1
    BY <1>1, <1>4, <2>1, AppendProperties
  <2> QED
    BY <1>4, <2>2, EmptySeq DEF Latest
<1>6. WeakTypeOK'
  BY <1>1, <1>4, <1>5 DEF WeakTypeOK
<1>7. \A u \in Inside : u = t
  BY <1>3 DEF MutualExclusion, Inside
<1>8. Synchronised'
  BY <1>1, <1>2, <1>3, <1>4, <1>5, <1>7 DEF Synchronised
<1> QED
  BY <1>1, <1>3, <1>5, <1>6, <1>8

\* main creates a thread outside, and waits.
LEMMA MainStepQuiet ==
  ASSUME NEW L, ClientTypeOK(L), ClientInv, MainStep
  PROVE  /\ \A t \in Threads : pc'[t] = pc[t] \/ (pc[t] = "none" /\ pc'[t] = "lock")
         /\ Inside' = Inside /\ UNCHANGED <<shared_counter, iter>>
PROOF
<1>1. \A t \in Threads : pc'[t] = pc[t] \/ (pc[t] = "none" /\ pc'[t] = "lock")
  BY LockClientAssumption, SMTT(30) DEF MainStep, Create, Join, Report, ClientTypeOK, ClientInv, MainInv, Threads
<1>2. Inside' = Inside
  BY <1>1 DEF Inside, InCriticalSection
<1> QED
  BY <1>1, <1>2 DEF MainStep, Create, Join, Report

-------------------------------------------------------------------------------
(* The locks of lecture-06: the test-and-set lock                          *)

\* What its steps are in terms of the client
LEMMA TasSteps ==
  ASSUME NEW t \in Threads
  PROVE  /\ Tas!TestAndSet(t) =>
              /\ LockStep(t, "lock", IF flag THEN "lock" ELSE "load") /\ flag' = TRUE
              /\ seen' = [seen EXCEPT ![t] = Later(@, IF flag THEN 1 ELSE flag_view)]
              /\ UNCHANGED <<history, flag_view>>
         /\ Tas!ClientStep(t) => (WeakLoad(t) \/ WeakStore(t)) /\ UNCHANGED tasLock
         /\ Tas!Clear(t) =>
              EndIteration(t) /\ flag' = FALSE /\ flag_view' = seen[t] /\ UNCHANGED weak
PROOF
<1>1. Tas!TestAndSet(t) =>
        /\ LockStep(t, "lock", IF flag THEN "lock" ELSE "load") /\ flag' = TRUE
        /\ seen' = [seen EXCEPT ![t] = Later(@, IF flag THEN 1 ELSE flag_view)]
        /\ UNCHANGED <<history, flag_view>>
  BY DEF Tas!TestAndSet, Tas!LockStep, Tas!Goto, Tas!Acquire, Tas!Later, LockStep, Goto, Later
<1>2. Tas!ClientStep(t) => (WeakLoad(t) \/ WeakStore(t)) /\ UNCHANGED tasLock
  BY DEF Tas!ClientStep, Tas!WeakLoad, Tas!WeakStore, Tas!Store, Tas!Goto, Tas!Latest, Tas!weak, Tas!lock,
       WeakLoad, WeakStore, Store, Goto, Latest, weak, tasLock
<1>3. Tas!Clear(t) => EndIteration(t) /\ flag' = FALSE /\ flag_view' = seen[t] /\ UNCHANGED weak
  BY DEF Tas!Clear, Tas!EndIteration, Tas!Goto, Tas!weak, EndIteration, Goto, weak
<1> QED
  BY <1>1, <1>2, <1>3

\* And main's
LEMMA TasMain == Tas!Main => MainStep /\ UNCHANGED <<weak, tasLock>>
  BY DEF Tas!Main, Tas!MainStep, Tas!Create, Tas!Join, Tas!Report, Tas!weak, Tas!lock,
         MainStep, Create, Join, Report, weak, tasLock

\* The program with the test-and-set lock keeps its invariant, and each of its
\* steps is one of the sequentially consistent program.
LEMMA TasInitOK == Tas!Init => TasInv /\ Tas!Sc!Init
PROOF
<1> SUFFICES ASSUME Tas!Init  PROVE TasInv /\ Tas!Sc!Init
  OBVIOUS
<1>1. /\ ClientInit /\ history = <<0>> /\ seen = [t \in Threads |-> 1]
      /\ flag = FALSE /\ flag_view = 1
  BY DEF Tas!Init, Tas!ClientInit, Tas!WeakInit, Tas!Threads, ClientInit, Threads
<1>2. ClientTypeOK({}) /\ ClientInv /\ MutualExclusion
  BY <1>1, ClientInitOK
<1>3. Latest = 1 /\ history[1] = 0 /\ history \in Seq(Nat) /\ history # << >>
  BY <1>1 DEF Latest
<1>4. Inside = {}
  BY <1>1 DEF Inside, InCriticalSection, ClientInit
<1>5. WeakTypeOK /\ Synchronised
  BY <1>1, <1>3, <1>4 DEF WeakTypeOK, Synchronised, ClientInit
<1>6. TasInv
  <2>1. flag = FALSE /\ flag_view \in 1 .. Latest
    BY <1>1, <1>3
  <2>2. (Inside # {} => flag) /\ (~flag => flag_view = Latest)
    BY <1>1, <1>3, <1>4
  <2> QED
    BY <1>2, <1>5, <2>1, <2>2 DEF TasInv
<1>7. Tas!Sc!Init
  BY <1>1 DEF Tas!Sc!Init, Tas!Sc!ClientInit, Tas!Sc!Threads, ClientInit, Threads
<1> QED
  BY <1>6, <1>7

\* A step of stupid_spinlock.c keeps its invariant.
LEMMA TasStepOK ==
  ASSUME TasInv, Tas!Step
  PROVE  TasInv' /\ [Tas!Sc!Next]_(Tas!Sc!vars)
PROOF
<1>0. {} \cap ClientNames = {}
  OBVIOUS
<1>1. /\ pc \in [Threads -> ClientNames] /\ Latest \in Nat \ {0}
      /\ seen \in [Threads -> 1 .. Latest]
  BY EmptySeq DEF TasInv, ClientTypeOK, ClientNames, WeakTypeOK, Latest
<1>2. CASE Tas!Main
  <2>1. MainStep /\ UNCHANGED <<weak, tasLock>>
    BY <1>2, TasMain
  <2>2. Good({}) /\ Inside' = Inside /\ UNCHANGED shared_counter
    BY <1>0, <2>1, MainStepOK, MainStepQuiet DEF TasInv
  <2>3. TasInv'
    BY <2>1, <2>2 DEF TasInv, Good, weak, tasLock, WeakTypeOK, Synchronised, Latest, MutualExclusion, Inside
  <2>4. Tas!Sc!Next
    BY <2>1 DEF Tas!Sc!Next, Tas!Sc!Main, Tas!Sc!MainStep, Tas!Sc!Create, Tas!Sc!Join, Tas!Sc!Report,
         MainStep, Create, Join, Report, tasLock
  <2> QED
    BY <2>3, <2>4
<1>3. ASSUME NEW t \in Threads, Tas!TestAndSet(t)
      PROVE  TasInv' /\ Tas!Sc!Next
  <2>1. /\ LockStep(t, "lock", IF flag THEN "lock" ELSE "load") /\ flag' = TRUE
        /\ seen' = [seen EXCEPT ![t] = Later(@, IF flag THEN 1 ELSE flag_view)]
        /\ UNCHANGED <<history, flag_view>>
    BY <1>3, TasSteps
  <2>2. Good({})
    BY <1>0, <2>1, LockStepOK DEF TasInv
  <2>3. /\ pc' = [pc EXCEPT ![t] = IF flag THEN "lock" ELSE "load"] /\ pc[t] = "lock"
        /\ shared_counter' = shared_counter
    BY <2>1 DEF LockStep, Goto
  <2>4. Tas!Sc!Next
    BY <2>1 DEF Tas!Sc!Next, Tas!Sc!Thread, Tas!Sc!TestAndSet, Tas!Sc!LockStep, Tas!Sc!Goto, Tas!Sc!Threads,
         Threads, LockStep, Goto
  <2>5. CASE flag
    <3>1. seen' = seen
      BY <1>1, <2>1, <2>5 DEF Later
    <3>2. Inside' = Inside
      BY <1>1, <2>3, <2>5 DEF Inside, InCriticalSection
    <3>3. WeakTypeOK' /\ Latest' = Latest
      BY <2>1, <3>1 DEF TasInv, WeakTypeOK, Latest
    <3>4. Synchronised'
      BY <2>1, <2>3, <3>1, <3>2, <3>3 DEF TasInv, Synchronised
    <3>5. MutualExclusion'
      BY <3>2 DEF TasInv, MutualExclusion, Inside
    <3>6. flag' = TRUE /\ flag_view' \in 1 .. Latest'
      BY <2>1, <3>3 DEF TasInv
    <3> QED
      BY <2>2, <2>4, <3>3, <3>4, <3>5, <3>6, Zenon DEF TasInv, Good
  <2>6. CASE ~flag
    <3>1. seen' = [seen EXCEPT ![t] = Latest]
      <4>1. (IF flag THEN 1 ELSE flag_view) = Latest
        BY <2>6 DEF TasInv
      <4>2. Later(seen[t], Latest) = Latest
        BY <1>1 DEF Later
      <4> QED
        BY <2>1, <4>1, <4>2
    <3>2. Inside = {} /\ Inside' = {t}
      BY <1>1, <2>3, <2>6 DEF Inside, InCriticalSection, TasInv
    <3>3. WeakTypeOK' /\ Latest' = Latest
      BY <1>1, <2>1, <3>1 DEF TasInv, WeakTypeOK, Latest
    <3>4. Synchronised'
      BY <1>1, <2>1, <2>3, <3>1, <3>2, <3>3 DEF TasInv, Synchronised
    <3>5. MutualExclusion'
      BY <3>2 DEF MutualExclusion, Inside
    <3>6. flag' = TRUE /\ flag_view' \in 1 .. Latest'
      BY <2>1, <3>3 DEF TasInv
    <3> QED
      BY <2>2, <2>4, <3>3, <3>4, <3>5, <3>6, Zenon DEF TasInv, Good
  <2> QED
    BY <2>4, <2>5, <2>6
<1>4. ASSUME NEW t \in Threads, Tas!ClientStep(t)
      PROVE  TasInv' /\ Tas!Sc!Next
  <2>1. (WeakLoad(t) \/ WeakStore(t)) /\ UNCHANGED tasLock
    BY <1>4, TasSteps
  <2>2. CASE WeakLoad(t)
    <3>1. Load(t) /\ UNCHANGED weak /\ Inside' = Inside /\ Synchronised'
      BY <2>2, WeakLoadOK DEF TasInv
    <3>2. Good({})
      BY <1>0, <3>1, LoadOK DEF TasInv
    <3>3. TasInv'
      BY <2>1, <3>1, <3>2 DEF TasInv, Good, weak, tasLock, WeakTypeOK, Latest, MutualExclusion, Inside
    <3>4. Tas!Sc!Next
      BY <2>1, <3>1 DEF Tas!Sc!Next, Tas!Sc!Thread, Tas!Sc!ClientStep, Tas!Sc!Load, Tas!Sc!Goto, Tas!Sc!Threads,
           Threads, Load, Goto, tasLock
    <3> QED
      BY <3>3, <3>4
  <2>3. CASE WeakStore(t)
    <3>1. /\ Store(t) /\ Inside' = Inside /\ t \in Inside
          /\ WeakTypeOK' /\ Synchronised' /\ Latest' = Latest + 1
      BY <2>3, WeakStoreOK DEF TasInv
    <3>2. Good({})
      BY <1>0, <3>1, StoreOK DEF TasInv
    <3>3. TasInv'
      BY <1>1, <2>1, <3>1, <3>2 DEF TasInv, Good, tasLock, MutualExclusion, Inside
    <3>4. Tas!Sc!Next
      BY <2>1, <3>1 DEF Tas!Sc!Next, Tas!Sc!Thread, Tas!Sc!ClientStep, Tas!Sc!Store, Tas!Sc!Goto, Tas!Sc!Threads,
           Threads, Store, Goto, tasLock
    <3> QED
      BY <3>3, <3>4
  <2> QED
    BY <2>1, <2>2, <2>3
<1>5. ASSUME NEW t \in Threads, Tas!Clear(t)
      PROVE  TasInv' /\ Tas!Sc!Next
  <2>1. EndIteration(t) /\ flag' = FALSE /\ flag_view' = seen[t] /\ UNCHANGED weak
    BY <1>5, TasSteps
  <2>2. Good({})
    BY <1>0, <2>1, EndIterationOK DEF TasInv
  <2>3. /\ pc' \in {[pc EXCEPT ![t] = "lock"], [pc EXCEPT ![t] = "done"]} /\ pc[t] = "unlock"
        /\ shared_counter' = shared_counter
    BY <2>1 DEF EndIteration, Goto
  <2>4. t \in Inside /\ \A u \in Inside : u = t
    BY <2>3 DEF Inside, InCriticalSection, TasInv, MutualExclusion
  <2>5. Inside' = {} /\ flag_view' = Latest
    BY <1>1, <2>1, <2>3, <2>4 DEF Inside, InCriticalSection, TasInv, Synchronised
  <2>6. TasInv'
    BY <1>1, <2>1, <2>2, <2>3, <2>5, ZenonT(60)
    DEF TasInv, Good, weak, WeakTypeOK, Synchronised, Latest, MutualExclusion, Inside
  <2>7. Tas!Sc!Next
    BY <2>1 DEF Tas!Sc!Next, Tas!Sc!Thread, Tas!Sc!Clear, Tas!Sc!EndIteration, Tas!Sc!Goto, Tas!Sc!Threads,
         Threads, EndIteration, Goto
  <2> QED
    BY <2>6, <2>7
<1> QED
  BY <1>2, <1>3, <1>4, <1>5 DEF Tas!Step, Tas!Thread, Tas!Threads, Threads

-------------------------------------------------------------------------------
(* The locks of lecture-06: the ticket lock                                *)

\* What its steps are in terms of the client
LEMMA TicketSteps ==
  ASSUME NEW t \in Threads
  PROVE  /\ Ticket!DrawTicket(t) =>
              /\ LockStep(t, "lock", "spin") /\ own_ticket' = [own_ticket EXCEPT ![t] = upcoming]
              /\ upcoming' = upcoming + 1
              /\ UNCHANGED <<weak, serving, serving_seen>>
         /\ Ticket!Spin(t) =>
              \E k \in serving_seen[t] .. Len(serving) :
                /\ LockStep(t, "spin", IF k - 1 = own_ticket[t] THEN "load" ELSE "spin")
                /\ serving_seen' = [serving_seen EXCEPT ![t] = k]
                /\ seen' = [seen EXCEPT ![t] = Later(@, serving[k])]
                /\ UNCHANGED <<history, upcoming, serving, own_ticket>>
         /\ Ticket!ClientStep(t) => (WeakLoad(t) \/ WeakStore(t)) /\ UNCHANGED ticketLock
         /\ Ticket!Unlock(t) =>
              /\ EndIteration(t)
              /\ serving' = Append(serving, Later(serving[Len(serving)], seen[t]))
              /\ serving_seen' = [serving_seen EXCEPT ![t] = Len(serving')]
              /\ UNCHANGED <<weak, upcoming, own_ticket>>
PROOF
<1>1. Ticket!DrawTicket(t) =>
        /\ LockStep(t, "lock", "spin") /\ own_ticket' = [own_ticket EXCEPT ![t] = upcoming]
        /\ upcoming' = upcoming + 1
        /\ UNCHANGED <<weak, serving, serving_seen>>
  BY DEF Ticket!DrawTicket, Ticket!LockStep, Ticket!Goto, Ticket!weak, LockStep, Goto, weak
<1>2. ASSUME Ticket!Spin(t)
      PROVE  \E k \in serving_seen[t] .. Len(serving) :
                /\ LockStep(t, "spin", IF k - 1 = own_ticket[t] THEN "load" ELSE "spin")
                /\ serving_seen' = [serving_seen EXCEPT ![t] = k]
                /\ seen' = [seen EXCEPT ![t] = Later(@, serving[k])]
                /\ UNCHANGED <<history, upcoming, serving, own_ticket>>
  BY <1>2 DEF Ticket!Spin, Ticket!LockStep, Ticket!Goto, Ticket!Acquire, Ticket!Later, LockStep, Goto, Later
<1>3. Ticket!ClientStep(t) => (WeakLoad(t) \/ WeakStore(t)) /\ UNCHANGED ticketLock
  BY DEF Ticket!ClientStep, Ticket!WeakLoad, Ticket!WeakStore, Ticket!Store, Ticket!Goto, Ticket!Latest,
       Ticket!weak, Ticket!lock, WeakLoad, WeakStore, Store, Goto, Latest, weak, ticketLock
<1>4. Ticket!Unlock(t) =>
        /\ EndIteration(t)
        /\ serving' = Append(serving, Later(serving[Len(serving)], seen[t]))
        /\ serving_seen' = [serving_seen EXCEPT ![t] = Len(serving')]
        /\ UNCHANGED <<weak, upcoming, own_ticket>>
  BY DEF Ticket!Unlock, Ticket!EndIteration, Ticket!Goto, Ticket!Later, Ticket!weak, EndIteration, Goto, Later,
       weak
<1> QED
  BY <1>1, <1>2, <1>3, <1>4

\* And main's
LEMMA TicketMain == Ticket!Main => MainStep /\ UNCHANGED <<weak, ticketLock>>
  BY DEF Ticket!Main, Ticket!MainStep, Ticket!Create, Ticket!Join, Ticket!Report, Ticket!weak, Ticket!lock,
         MainStep, Create, Join, Report, weak, ticketLock

\* All the tickets there can be: one for each iteration of each thread
LEMMA TicketsBounded ==
  ASSUME NEW D \in SUBSET (Threads \X (0 .. Iterations - 1))
  PROVE  IsFiniteSet(D) /\ Cardinality(D) <= NumThreads * Iterations
PROOF
<1> USE LockClientAssumption
<1> DEFINE Slots == 0 .. Iterations - 1
<1>1. IsFiniteSet(Threads) /\ Cardinality(Threads) = NumThreads
  <2>1. 0 \in Int /\ NumThreads - 1 \in Int /\ ~(0 > NumThreads - 1)
    OBVIOUS
  <2>2. IsFiniteSet(0 .. NumThreads - 1) /\ Cardinality(0 .. NumThreads - 1) = NumThreads - 1 - 0 + 1
    BY <2>1, FS_Interval
  <2> QED
    BY <2>2 DEF Threads
<1>2. IsFiniteSet(Slots) /\ Cardinality(Slots) = Iterations
  <2>1. 0 \in Int /\ Iterations - 1 \in Int /\ ~(0 > Iterations - 1)
    OBVIOUS
  <2>2. IsFiniteSet(0 .. Iterations - 1) /\ Cardinality(0 .. Iterations - 1) = Iterations - 1 - 0 + 1
    BY <2>1, FS_Interval
  <2> QED
    BY <2>2
<1> HIDE DEF Slots
<1>3. IsFiniteSet(Threads \X Slots) /\ Cardinality(Threads \X Slots) = NumThreads * Iterations
  BY <1>1, <1>2, FS_Product
<1>4. D \in SUBSET (Threads \X Slots)
  BY DEF Slots
<1> QED
  BY <1>3, <1>4, FS_Subset

\* No two threads are inside: both would have the ticket that is served.
LEMMA TicketExcludes == WeakTicketInv => MutualExclusion
  BY DEF WeakTicketInv, MutualExclusion, Inside, InCriticalSection, Holding

\* The program with the ticket lock keeps its invariant, and each of its steps
\* is one of the sequentially consistent program or a stutter.
LEMMA TicketInitOK == Ticket!Init => WeakTicketInv /\ Ticket!Sc!Init
PROOF
<1> SUFFICES ASSUME Ticket!Init  PROVE WeakTicketInv /\ Ticket!Sc!Init
  OBVIOUS
<1>1. /\ ClientInit /\ history = <<0>> /\ seen = [t \in Threads |-> 1]
      /\ upcoming = 0 /\ serving = <<1>> /\ serving_seen = [t \in Threads |-> 1]
      /\ own_ticket = [t \in Threads |-> 0]
  BY DEF Ticket!Init, Ticket!ClientInit, Ticket!WeakInit, Ticket!Threads, ClientInit, Threads
<1>2. ClientTypeOK({"spin"}) /\ ClientInv /\ MutualExclusion
  BY <1>1, ClientInitOK
<1>3. Latest = 1 /\ history[1] = 0 /\ history \in Seq(Nat) /\ history # << >>
  BY <1>1 DEF Latest
<1>4. Inside = {} /\ \A t \in Threads : ~Holding(t) /\ iter[t] = 0
  BY <1>1 DEF Inside, InCriticalSection, Holding, ClientInit
<1>5. WeakTypeOK /\ Synchronised
  BY <1>1, <1>3, <1>4 DEF WeakTypeOK, Synchronised, ClientInit
<1>6. /\ serving \in Seq(1 .. Latest) /\ serving # << >> /\ Len(serving) = 1
      /\ serving[Len(serving)] = Latest /\ Serving = 0
  BY <1>1, <1>3 DEF Serving
<1>7. IsFiniteSet(Drawn) /\ Cardinality(Drawn) = 0
  <2>1. Drawn = {}
    BY <1>4 DEF Drawn
  <2> QED
    BY <2>1, FS_EmptySet
<1>8. WeakTicketInv
  BY <1>1, <1>2, <1>4, <1>5, <1>6, <1>7 DEF WeakTicketInv
<1>9. Ticket!Sc!Init
  BY <1>1, <1>6 DEF Ticket!Sc!Init, Ticket!Sc!ClientInit, Ticket!Sc!Threads, Ticket!now_serving, ClientInit,
     Threads
<1> QED
  BY <1>8, <1>9

\* What the proofs of the steps use of the invariant
LEMMA TicketFacts ==
  ASSUME WeakTicketInv
  PROVE  /\ pc \in [Threads -> {"spin"} \cup ClientNames] /\ Latest \in Nat \ {0}
         /\ seen \in [Threads -> 1 .. Latest]
         /\ serving \in Seq(1 .. Latest) /\ Len(serving) \in Nat \ {0}
         /\ \A k \in 1 .. Len(serving) : serving[k] \in 1 .. Latest
         /\ serving_seen \in [Threads -> 1 .. Len(serving)] /\ own_ticket \in [Threads -> Nat]
         /\ Serving \in Nat /\ Serving = Len(serving) - 1 /\ upcoming \in Nat
         /\ upcoming < OrdersMod
         /\ \A t \in Inside : seen[t] = Latest
PROOF
<1>1. Latest \in Nat \ {0} /\ Len(serving) \in Nat \ {0}
  BY EmptySeq DEF WeakTicketInv, WeakTypeOK, Latest
<1>2. upcoming < OrdersMod
  <2>1. Drawn \in SUBSET (Threads \X (0 .. Iterations - 1))
    BY DEF Drawn
  <2> QED
    BY <2>1, TicketsBounded, NoWrapAssumption, LockClientAssumption DEF WeakTicketInv
<1>3. \A k \in 1 .. Len(serving) : serving[k] \in 1 .. Latest
  BY ElementOfSeq DEF WeakTicketInv
<1>4. /\ pc \in [Threads -> {"spin"} \cup ClientNames] /\ seen \in [Threads -> 1 .. Latest]
      /\ \A t \in Inside : seen[t] = Latest
  BY DEF WeakTicketInv, ClientTypeOK, ClientNames, WeakTypeOK, Synchronised
<1>5. Serving \in Nat /\ Serving = Len(serving) - 1
  BY <1>1 DEF Serving
<1> QED
  BY <1>1, <1>2, <1>3, <1>4, <1>5 DEF WeakTicketInv

\* A thread draws the next ticket, for one iteration more.
LEMMA DrawTicketOK ==
  ASSUME WeakTicketInv, NEW t \in Threads, Ticket!DrawTicket(t)
  PROVE  WeakTicketInv' /\ Ticket!Sc!Next
PROOF
<1>1. /\ LockStep(t, "lock", "spin") /\ own_ticket' = [own_ticket EXCEPT ![t] = upcoming]
      /\ upcoming' = upcoming + 1
      /\ UNCHANGED <<weak, serving, serving_seen>>
  BY TicketSteps
<1>2. {"spin"} \cap ClientNames = {}
  BY DEF ClientNames
<1>3. Good({"spin"})
  BY <1>1, <1>2, LockStepOK DEF WeakTicketInv
<1>4. /\ pc[t] = "lock" /\ pc' = [pc EXCEPT ![t] = "spin"] /\ iter' = iter
      /\ shared_counter' = shared_counter
  BY <1>1 DEF LockStep, Goto
<1>5. Inside' = Inside /\ ~Holding(t) /\ Holding(t)'
  BY <1>4, TicketFacts DEF Inside, InCriticalSection, Holding
<1>6. \A u \in Threads : u # t => (Holding(u)' <=> Holding(u)) /\ own_ticket'[u] = own_ticket[u]
  BY <1>1, <1>4, TicketFacts DEF Holding
<1>7. own_ticket'[t] = upcoming /\ t \notin Inside
  BY <1>1, <1>4, TicketFacts DEF Inside, InCriticalSection
<1>8. WeakTypeOK' /\ Synchronised' /\ Latest' = Latest
  BY <1>1, <1>4, <1>5 DEF WeakTicketInv, WeakTypeOK, Synchronised, Latest, weak
<1>9. IsFiniteSet(Drawn') /\ Cardinality(Drawn') = upcoming'
  <2>1. iter[t] \in 0 .. Iterations - 1
    BY <1>4, LockClientAssumption DEF WeakTicketInv, ClientTypeOK, ClientInv, LoopInv
  <2>2. Drawn' = Drawn \cup {<<t, iter[t]>>}
    BY <1>4, <1>5, <1>6, <2>1 DEF Drawn
  <2>3. <<t, iter[t]>> \notin Drawn
    BY <1>5, <2>1 DEF Drawn
  <2>4. IsFiniteSet(Drawn) /\ Cardinality(Drawn) = upcoming
    BY DEF WeakTicketInv
  <2>5. /\ IsFiniteSet(Drawn \cup {<<t, iter[t]>>})
        /\ Cardinality(Drawn \cup {<<t, iter[t]>>}) = Cardinality(Drawn) + 1
    BY <2>3, <2>4, FS_AddElement
  <2> QED
    BY <1>1, <2>2, <2>4, <2>5
<1>10. \A u \in Threads : Holding(u)' => own_ticket'[u] \in Serving .. upcoming
  BY <1>5, <1>6, <1>7, TicketFacts DEF WeakTicketInv
<1>11. \A u, v \in Threads : Holding(u)' /\ Holding(v)' /\ own_ticket'[u] = own_ticket'[v] => u = v
  <2>1. \A u \in Threads : u # t /\ Holding(u)' => own_ticket'[u] # upcoming
    BY <1>6, TicketFacts DEF WeakTicketInv
  <2>2. \A u, v \in Threads :
          u # t /\ v # t /\ Holding(u)' /\ Holding(v)' /\ own_ticket'[u] = own_ticket'[v] => u = v
    BY <1>6 DEF WeakTicketInv
  <2> QED
    BY <1>7, <2>1, <2>2
<1>12. \A u \in Inside : own_ticket'[u] = Serving
  BY <1>6, <1>7 DEF WeakTicketInv, Inside
<1>13. Serving' = Serving /\ serving' = serving /\ serving_seen' = serving_seen
       /\ upcoming' \in Nat /\ own_ticket' \in [Threads -> Nat]
  BY <1>1, TicketFacts DEF Serving
<1>14. WeakTicketInv'
  <2>1. \A u \in Threads : Holding(u)' => own_ticket'[u] \in Serving .. upcoming' - 1
    BY <1>1, <1>10, TicketFacts, SMTT(30)
  <2>2. Serving' <= upcoming'
    BY <1>1, <1>13, TicketFacts DEF WeakTicketInv
  <2> QED
    BY <1>3, <1>5, <1>8, <1>9, <1>11, <1>12, <1>13, <2>1, <2>2 DEF WeakTicketInv, Good
<1>15. Ticket!Sc!Next
  <2>1. upcoming + 1 < OrdersMod
    <3>1. Drawn' \in SUBSET (Threads \X (0 .. Iterations - 1))
      BY DEF Drawn
    <3> QED
      BY <1>1, <1>9, <3>1, TicketsBounded, TicketFacts, NoWrapAssumption, LockClientAssumption, SMTT(30)
  <2>2. \A n \in Nat : n < OrdersMod => n % OrdersMod = n
    BY NoWrapAssumption
  <2>3. upcoming' = (upcoming + 1) % OrdersMod
    BY <1>1, <2>1, <2>2, TicketFacts
  <2> QED
    BY <1>1, <2>3 DEF Ticket!Sc!Next, Ticket!Sc!Thread, Ticket!Sc!DrawTicket, Ticket!Sc!LockStep,
       Ticket!Sc!Goto, Ticket!Sc!Succ, Ticket!Sc!Threads, Ticket!now_serving, Threads, LockStep, Goto
<1> QED
  BY <1>14, <1>15

\* Steps that draw and serve no ticket and let nobody in
LEMMA TicketQuiet ==
  ASSUME WeakTicketInv, Good({"spin"}), UNCHANGED <<ticketLock, iter>>,
         \A t \in Threads : Holding(t)' <=> Holding(t), Inside' = Inside,
         WeakTypeOK', Synchronised',
         Latest' = Latest \/ (Latest' = Latest + 1 /\ Inside # {})
  PROVE  WeakTicketInv'
PROOF
<1>1. Drawn' = Drawn
  BY DEF Drawn
<1>2. serving \in Seq(1 .. Latest')
  <2>1. 1 .. Latest \subseteq 1 .. Latest'
    BY TicketFacts
  <2> QED
    BY <2>1, TicketFacts, SeqMonotonic
<1>3. UNCHANGED <<upcoming, serving, serving_seen, own_ticket>> /\ Serving' = Serving
  BY DEF ticketLock, Serving
<1> QED
  BY <1>1, <1>2, <1>3 DEF WeakTicketInv, Good

\* The threads and main, as long as they do not touch the lock
LEMMA TicketClientOK ==
  ASSUME WeakTicketInv,
         Ticket!Main \/ \E t \in Threads : Ticket!ClientStep(t)
  PROVE  WeakTicketInv' /\ Ticket!Sc!Next
PROOF
<1>0. {"spin"} \cap ClientNames = {}
  BY DEF ClientNames
<1>1. pc \in [Threads -> {"spin"} \cup ClientNames]
  BY TicketFacts
<1>2. CASE Ticket!Main
  <2>1. MainStep /\ UNCHANGED <<weak, ticketLock>>
    BY <1>2, TicketMain
  <2>2. /\ Good({"spin"}) /\ Inside' = Inside /\ UNCHANGED <<shared_counter, iter>>
        /\ \A t \in Threads : Holding(t)' <=> Holding(t)
    BY <1>0, <2>1, MainStepOK, MainStepQuiet DEF WeakTicketInv, Holding
  <2>3. WeakTypeOK' /\ Synchronised' /\ Latest' = Latest
    BY <2>1, <2>2 DEF WeakTicketInv, WeakTypeOK, Synchronised, Latest, weak
  <2>4. WeakTicketInv'
    BY <2>1, <2>2, <2>3, TicketQuiet
  <2>5. Ticket!Sc!Next
    BY <2>1 DEF Ticket!Sc!Next, Ticket!Sc!Main, Ticket!Sc!MainStep, Ticket!Sc!Create, Ticket!Sc!Join,
       Ticket!Sc!Report, Ticket!Sc!lock, Ticket!now_serving, MainStep, Create, Join, Report, ticketLock
  <2> QED
    BY <2>4, <2>5
<1>3. ASSUME NEW t \in Threads, Ticket!ClientStep(t)
      PROVE  WeakTicketInv' /\ Ticket!Sc!Next
  <2>1. (WeakLoad(t) \/ WeakStore(t)) /\ UNCHANGED ticketLock
    BY <1>3, TicketSteps
  <2>2. CASE WeakLoad(t)
    <3>1. Load(t) /\ UNCHANGED weak /\ Inside' = Inside /\ Synchronised'
      BY <2>2, WeakLoadOK DEF WeakTicketInv
    <3>2. Good({"spin"}) /\ UNCHANGED iter /\ \A u \in Threads : Holding(u)' <=> Holding(u)
      BY <1>0, <1>1, <3>1, LoadOK DEF WeakTicketInv, Load, Goto, Holding
    <3>3. WeakTypeOK' /\ Latest' = Latest
      BY <3>1 DEF WeakTicketInv, weak, WeakTypeOK, Latest
    <3>4. WeakTicketInv'
      BY <2>1, <3>1, <3>2, <3>3, TicketQuiet
    <3>5. Ticket!Sc!Next
      BY <2>1, <3>1 DEF Ticket!Sc!Next, Ticket!Sc!Thread, Ticket!Sc!ClientStep, Ticket!Sc!Load, Ticket!Sc!Goto,
         Ticket!Sc!Threads, Ticket!Sc!lock, Ticket!now_serving, Threads, Load, Goto, ticketLock
    <3> QED
      BY <3>4, <3>5
  <2>3. CASE WeakStore(t)
    <3>1. /\ Store(t) /\ Inside' = Inside /\ t \in Inside
          /\ WeakTypeOK' /\ Synchronised' /\ Latest' = Latest + 1
      BY <2>3, WeakStoreOK, TicketExcludes DEF WeakTicketInv
    <3>2. Good({"spin"}) /\ UNCHANGED iter /\ \A u \in Threads : Holding(u)' <=> Holding(u)
      BY <1>0, <1>1, <3>1, StoreOK, TicketExcludes DEF WeakTicketInv, Store, Goto, Holding
    <3>3. WeakTicketInv'
      BY <2>1, <3>1, <3>2, TicketQuiet
    <3>4. Ticket!Sc!Next
      BY <2>1, <3>1 DEF Ticket!Sc!Next, Ticket!Sc!Thread, Ticket!Sc!ClientStep, Ticket!Sc!Store, Ticket!Sc!Goto,
         Ticket!Sc!Threads, Ticket!Sc!lock, Ticket!now_serving, Threads, Store, Goto, ticketLock
    <3> QED
      BY <3>3, <3>4
  <2> QED
    BY <2>1, <2>2, <2>3
<1> QED
  BY <1>2, <1>3

\* A round of the spin loop, which may read an old now_serving: what it reads is
\* the ticket only if it is the latest.
LEMMA SpinOK ==
  ASSUME WeakTicketInv, NEW t \in Threads, Ticket!Spin(t)
  PROVE  WeakTicketInv' /\ [Ticket!Sc!Next]_(Ticket!Sc!vars)
PROOF
<1>1. PICK k \in serving_seen[t] .. Len(serving) :
        /\ LockStep(t, "spin", IF k - 1 = own_ticket[t] THEN "load" ELSE "spin")
        /\ serving_seen' = [serving_seen EXCEPT ![t] = k]
        /\ seen' = [seen EXCEPT ![t] = Later(@, serving[k])]
        /\ UNCHANGED <<history, upcoming, serving, own_ticket>>
  BY TicketSteps
<1>2. {"spin"} \cap ClientNames = {}
  BY DEF ClientNames
<1>3. Good({"spin"})
  BY <1>1, <1>2, LockStepOK DEF WeakTicketInv
<1>4. /\ pc[t] = "spin" /\ iter' = iter /\ shared_counter' = shared_counter
      /\ pc' = [pc EXCEPT ![t] = IF k - 1 = own_ticket[t] THEN "load" ELSE "spin"]
  BY <1>1 DEF LockStep, Goto
<1>5. \A u \in Threads : Holding(u)' <=> Holding(u)
  BY <1>4, TicketFacts DEF Holding
<1>6. Drawn' = Drawn /\ Serving' = Serving /\ Latest' = Latest
  BY <1>1, <1>4, <1>5 DEF Drawn, Serving, Latest
<1>7. k \in 1 .. Len(serving) /\ serving[k] \in 1 .. Latest /\ seen[t] \in 1 .. Latest
  BY <1>1, TicketFacts
<1>8. Holding(t) /\ t \notin Inside
  BY <1>4 DEF Holding, Inside, InCriticalSection
<1>9. WeakTypeOK' /\ serving_seen' \in [Threads -> 1 .. Len(serving)]
  <2>1. Later(seen[t], serving[k]) \in 1 .. Latest
    BY <1>7 DEF Later
  <2>2. seen' \in [Threads -> 1 .. Latest]
    BY <1>1, <2>1, TicketFacts
  <2> QED
    BY <1>1, <1>6, <1>7, <2>2, TicketFacts DEF WeakTicketInv, WeakTypeOK
<1>10. CASE k - 1 # own_ticket[t]
  <2>1. pc' = pc
    BY <1>4, <1>10, TicketFacts
  <2>2. Inside' = Inside
    BY <2>1 DEF Inside, InCriticalSection
  <2>3. Synchronised'
    BY <1>1, <1>4, <1>6, <1>8, <2>2, TicketFacts DEF WeakTicketInv, Synchronised, Inside
  <2>4. WeakTicketInv'
    BY <1>1, <1>3, <1>5, <1>6, <1>9, <2>2, <2>3 DEF WeakTicketInv, Good
  <2>5. UNCHANGED Ticket!Sc!vars
    BY <1>1, <2>1 DEF Ticket!Sc!vars, Ticket!Sc!client, Ticket!Sc!lock, Ticket!now_serving, LockStep
  <2> QED
    BY <2>4, <2>5
<1>11. CASE k - 1 = own_ticket[t]
  <2>1. own_ticket[t] = Serving /\ k = Len(serving)
    BY <1>7, <1>8, <1>11, TicketFacts, SMTT(30) DEF WeakTicketInv
  <2>2. Inside = {}
    BY <1>8, <2>1 DEF WeakTicketInv, Inside, InCriticalSection, Holding
  <2>3. Inside' = {t}
    BY <1>4, <1>11, <2>2, TicketFacts DEF Inside, InCriticalSection
  <2>4. seen'[t] = Latest
    <3>1. serving[k] = Latest
      BY <2>1, <2>2 DEF WeakTicketInv
    <3>2. Later(seen[t], Latest) = Latest
      BY <1>7, TicketFacts DEF Later
    <3> QED
      BY <1>1, <3>1, <3>2, TicketFacts
  <2>5. Synchronised'
    BY <1>1, <1>4, <1>6, <2>3, <2>4 DEF WeakTicketInv, Synchronised
  <2>6. WeakTicketInv'
    BY <1>1, <1>3, <1>5, <1>6, <1>9, <2>1, <2>3, <2>5 DEF WeakTicketInv, Good
  <2>7. Ticket!Sc!Next
    <3>1. Ticket!now_serving = own_ticket[t]
      BY <2>1 DEF Ticket!now_serving, Serving
    <3> QED
      BY <1>1, <1>11, <3>1 DEF Ticket!Sc!Next, Ticket!Sc!Thread, Ticket!Sc!Spin, Ticket!Sc!LockStep,
         Ticket!Sc!Goto, Ticket!Sc!Threads, Ticket!Sc!lock, Ticket!now_serving, Threads, LockStep, Goto
  <2> QED
    BY <2>6, <2>7
<1> QED
  BY <1>10, <1>11

\* The thread inside serves the next ticket and passes on what it knows.
LEMMA UnlockOK ==
  ASSUME WeakTicketInv, NEW t \in Threads, Ticket!Unlock(t)
  PROVE  WeakTicketInv' /\ Ticket!Sc!Next
PROOF
<1>1. /\ EndIteration(t)
      /\ serving' = Append(serving, Later(serving[Len(serving)], seen[t]))
      /\ serving_seen' = [serving_seen EXCEPT ![t] = Len(serving')]
      /\ UNCHANGED <<weak, upcoming, own_ticket>>
  BY TicketSteps
<1>2. {"spin"} \cap ClientNames = {}
  BY DEF ClientNames
<1>3. Good({"spin"})
  BY <1>1, <1>2, EndIterationOK DEF WeakTicketInv
<1>4. /\ pc[t] = "unlock" /\ pc' \in {[pc EXCEPT ![t] = "lock"], [pc EXCEPT ![t] = "done"]}
      /\ iter' = [iter EXCEPT ![t] = @ + 1] /\ shared_counter' = shared_counter
  BY <1>1 DEF EndIteration, Goto
<1>5. t \in Inside /\ \A u \in Inside : u = t
  BY <1>4, TicketExcludes DEF Inside, InCriticalSection, MutualExclusion
<1>6. own_ticket[t] = Serving /\ Holding(t) /\ ~Holding(t)' /\ seen[t] = Latest
  BY <1>4, <1>5, TicketFacts DEF WeakTicketInv, Holding
<1>7. \A u \in Threads : u # t => (Holding(u)' <=> Holding(u)) /\ iter'[u] = iter[u]
  BY <1>4, TicketFacts DEF Holding, WeakTicketInv, ClientTypeOK
<1>8. Inside' = {}
  BY <1>4, <1>5, TicketFacts DEF Inside, InCriticalSection
<1>9. serving' = Append(serving, Latest)
  <2>1. Later(serving[Len(serving)], seen[t]) = Latest
    BY <1>6, TicketFacts DEF Later
  <2> QED
    BY <1>1, <2>1
<1>10. /\ serving' \in Seq(1 .. Latest) /\ Len(serving') = Len(serving) + 1
       /\ serving'[Len(serving) + 1] = Latest /\ serving' # << >>
  <2>1. Latest \in 1 .. Latest
    BY TicketFacts
  <2>2. serving' \in Seq(1 .. Latest) /\ Len(serving') = Len(serving) + 1
        /\ serving'[Len(serving) + 1] = Latest
    BY <1>9, <2>1, TicketFacts, AppendProperties
  <2> QED
    BY <2>2, TicketFacts, EmptySeq
<1>11. Serving' = Serving + 1 /\ Latest' = Latest /\ serving'[Len(serving')] = Latest
  BY <1>1, <1>10, TicketFacts DEF Serving, Latest, weak
<1>12. WeakTypeOK' /\ Synchronised'
  BY <1>1, <1>4, <1>8, <1>11 DEF WeakTicketInv, WeakTypeOK, Synchronised, weak
<1>13. serving_seen' \in [Threads -> 1 .. Len(serving')]
  BY <1>1, <1>10, TicketFacts, SMTT(30)
<1>14. Drawn' = Drawn
  <2>1. iter[t] \in Nat /\ iter'[t] = iter[t] + 1
    BY <1>4 DEF WeakTicketInv, ClientTypeOK
  <2>2. \A d \in Threads \X (0 .. Iterations - 1) :
          (d[2] < iter'[d[1]] \/ (d[2] = iter'[d[1]] /\ Holding(d[1])'))
            <=> (d[2] < iter[d[1]] \/ (d[2] = iter[d[1]] /\ Holding(d[1])))
    <3> SUFFICES ASSUME NEW u \in Threads, NEW i \in 0 .. Iterations - 1
                 PROVE  (i < iter'[u] \/ (i = iter'[u] /\ Holding(u)'))
                          <=> (i < iter[u] \/ (i = iter[u] /\ Holding(u)))
      OBVIOUS
    <3>1. CASE u = t
      BY <1>6, <2>1, <3>1
    <3>2. CASE u # t
      BY <1>7, <3>2
    <3> QED
      BY <3>1, <3>2
  <2> QED
    BY <2>2 DEF Drawn
<1>15. \A u \in Threads : Holding(u)' => own_ticket[u] \in Serving + 1 .. upcoming - 1
  <2> SUFFICES ASSUME NEW u \in Threads, Holding(u)'  PROVE own_ticket[u] \in Serving + 1 .. upcoming - 1
    OBVIOUS
  <2>1. u # t /\ Holding(u)
    BY <1>6, <1>7
  <2>2. own_ticket[u] # own_ticket[t] /\ own_ticket[u] \in Serving .. upcoming - 1
    BY <1>6, <2>1 DEF WeakTicketInv
  <2> QED
    BY <1>6, <2>2, TicketFacts
<1>16. Serving + 1 <= upcoming
  BY <1>6, TicketFacts DEF WeakTicketInv
<1>17. \A u, v \in Threads : Holding(u)' /\ Holding(v)' /\ own_ticket[u] = own_ticket[v] => u = v
  BY <1>6, <1>7 DEF WeakTicketInv
<1>18. WeakTicketInv'
  BY <1>1, <1>3, <1>8, <1>10, <1>11, <1>12, <1>13, <1>14, <1>15, <1>16, <1>17 DEF WeakTicketInv, Good
<1>19. Ticket!Sc!Next
  <2>1. \A n \in Nat : n < OrdersMod => n % OrdersMod = n
    BY NoWrapAssumption
  <2>2. Serving' = (Serving + 1) % OrdersMod
    BY <1>11, <1>16, <2>1, TicketFacts, NoWrapAssumption, SMTT(30)
  <2>3. Ticket!now_serving' = (Ticket!now_serving + 1) % OrdersMod
    BY <2>2 DEF Ticket!now_serving, Serving
  <2> QED
    BY <1>1, <2>3 DEF Ticket!Sc!Next, Ticket!Sc!Thread, Ticket!Sc!Unlock, Ticket!Sc!EndIteration,
       Ticket!Sc!Goto, Ticket!Sc!Succ, Ticket!Sc!Threads, Threads, EndIteration, Goto
<1> QED
  BY <1>18, <1>19

-------------------------------------------------------------------------------
(* The locks of lecture-06: the theorems                                   *)

\* The invariant holds, whichever lock is used, and each step is one of that
\* lock's sequentially consistent program.
LEMMA InitOK ==
  OrdersInit =>
    /\ Inv
    /\ program = "stupid_spinlock" => Tas!Sc!Init
    /\ program = "smart_spinlock" => Ticket!Sc!Init
  BY TasInitOK, TicketInitOK DEF OrdersInit, Inv

\* Every step of either program keeps the invariant.
LEMMA NextOK ==
  Inv /\ [OrdersNext]_allVars =>
    /\ Inv'
    /\ program = "stupid_spinlock" => [Tas!Sc!Next]_(Tas!Sc!vars)
    /\ program = "smart_spinlock" => [Ticket!Sc!Next]_(Ticket!Sc!vars)
PROOF
<1> SUFFICES ASSUME Inv, [OrdersNext]_allVars
             PROVE  /\ Inv'
                    /\ program = "stupid_spinlock" => [Tas!Sc!Next]_(Tas!Sc!vars)
                    /\ program = "smart_spinlock" => [Ticket!Sc!Next]_(Ticket!Sc!vars)
  OBVIOUS
<1>1. CASE TasStep
  <2>1. program = "stupid_spinlock" /\ program' = program /\ TasInv /\ Tas!Step
    BY <1>1 DEF TasStep, Inv
  <2>2. TasInv' /\ [Tas!Sc!Next]_(Tas!Sc!vars)
    BY <2>1, TasStepOK
  <2> QED
    BY <2>1, <2>2 DEF Inv
<1>2. CASE TicketStep
  <2>1. program = "smart_spinlock" /\ program' = program /\ WeakTicketInv /\ Ticket!Step
    BY <1>2 DEF TicketStep, Inv
  <2>2. WeakTicketInv' /\ [Ticket!Sc!Next]_(Ticket!Sc!vars)
    BY <2>1, DrawTicketOK, SpinOK, TicketClientOK, UnlockOK
    DEF Ticket!Step, Ticket!Thread, Ticket!Threads, Threads
  <2> QED
    BY <2>1, <2>2 DEF Inv
<1>3. CASE UNCHANGED allVars
  <2>1. UNCHANGED <<program, shared_counter, pc, reg, iter, mpc, started, joined, history, seen, flag,
                    flag_view, upcoming, serving, serving_seen, own_ticket>>
    BY <1>3 DEF allVars, client, weak, tasLock, ticketLock
  <2>2. Inv'
    <3>1. ClientTypeOK({})' = ClientTypeOK({}) /\ ClientTypeOK({"spin"})' = ClientTypeOK({"spin"})
      BY <2>1 DEF ClientTypeOK
    <3>2. (WeakTypeOK' <=> WeakTypeOK) /\ (Synchronised' <=> Synchronised)
          /\ Inside' = Inside /\ Latest' = Latest
      BY <2>1 DEF WeakTypeOK, Synchronised, Inside, InCriticalSection, Latest
    <3>3. (ClientInv' <=> ClientInv) /\ (MutualExclusion' <=> MutualExclusion)
      BY <2>1 DEF ClientInv, LoadIsFresh, LoopInv, MainInv, MutualExclusion, InCriticalSection
    <3>4. Drawn' = Drawn /\ Serving' = Serving /\ \A t \in Threads : Holding(t)' <=> Holding(t)
      BY <2>1 DEF Drawn, Serving, Holding
    <3>5. TasInv => TasInv'
      BY <2>1, <3>1, <3>2, <3>3 DEF TasInv
    <3>6. WeakTicketInv => WeakTicketInv'
      BY <2>1, <3>1, <3>2, <3>3, <3>4 DEF WeakTicketInv
    <3> QED
      BY <2>1, <3>5, <3>6 DEF Inv
  <2>3. UNCHANGED Tas!Sc!vars /\ UNCHANGED Ticket!Sc!vars
    BY <2>1 DEF Tas!Sc!vars, Tas!Sc!client, Ticket!Sc!vars, Ticket!Sc!client, Ticket!Sc!lock,
       Ticket!now_serving
  <2> QED
    BY <2>2, <2>3
<1> QED
  BY <1>1, <1>2, <1>3 DEF OrdersNext, OrdersTerminated

\* The invariant holds of every run.
LEMMA OrdersInvariance == OrdersSpec => []Inv
  BY InitOK, NextOK, PTL DEF OrdersSpec

\* Acquire and release suffice: whoever touches the plain int shared_counter knows
\* of every store that has been made, so that no two accesses race.
THEOREM NoDataRace == OrdersSpec => []RaceFree
PROOF
<1>1. Inv => RaceFree
  BY DEF Inv, TasInv, WeakTicketInv, Synchronised, RaceFree, Inside, InCriticalSection
<1> QED
  BY <1>1, OrdersInvariance, PTL

\* With these orders, too, no two threads are between spinlock_lock and
\* spinlock_unlock at once.
THEOREM OrdersExclude == OrdersSpec => []MutualExclusion
PROOF
<1>1. Inv => MutualExclusion
  BY TicketExcludes DEF Inv, TasInv
<1> QED
  BY <1>1, OrdersInvariance, PTL

\* Neither the relaxed tickets nor the stale reads of now_serving show: the
\* programs do what those of lecture-02 do, step by step.
THEOREM OrdersImplementScSpinlock == OrdersSpec => ImplementsScSpinlock
PROOF
<1> DEFINE Start == /\ program = "stupid_spinlock" => Tas!Sc!Init
                    /\ program = "smart_spinlock" => Ticket!Sc!Init
           Step == /\ program = "stupid_spinlock" => [Tas!Sc!Next]_(Tas!Sc!vars)
                   /\ program = "smart_spinlock" => [Ticket!Sc!Next]_(Ticket!Sc!vars)
<1>1. OrdersInit => Start
  BY InitOK
<1>2. Inv /\ [OrdersNext]_allVars => [Step]_allVars
  BY NextOK
<1>3. Start /\ [][Step]_allVars => ImplementsScSpinlock
  BY PTL DEF ImplementsScSpinlock
<1> HIDE DEF Start, Step
<1> QED
  BY <1>1, <1>2, <1>3, OrdersInvariance, PTL DEF OrdersSpec
===============================================================================
