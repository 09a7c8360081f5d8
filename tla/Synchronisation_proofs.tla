------------------------- MODULE Synchronisation_proofs -------------------------
(***************************************************************************)
(* What holds of the programs under mutexes, a semaphore and flags for     *)
(* every number of threads, processes, iterations, items and kills.        *)
(* Each program has an invariant of its own, which says how far a thread   *)
(* is in its calls while the mutex, the semaphore or the flag is what it   *)
(* is.                                                                     *)
(***************************************************************************)
EXTENDS Synchronisation, FiniteSetTheorems, TLAPS

-------------------------------------------------------------------------------
(* The counting programs                                                   *)

Counts == program \in {"counter", "mutex_shared"}

\* How many threads or processes increment.
Size == IF program = "counter" THEN Workers ELSE Children

\* The stores that have been made.
Stores == UNION {{t} \X Made(t, "store") : t \in Others}

\* How many of the four calls of an increment thread t has made.
Phase(t) == (pc[t] - 1) % 4

CountTypeOK ==
  /\ pc \in [0 .. Size -> Nat] /\ pc[Main] \in 1 .. 2 * Size + 1
  /\ \A t \in 1 .. Size : pc[t] \in 0 .. 4 * Iterations + 1
  /\ owner \in [{1, 2} -> Int] /\ dead_owner = FALSE
  /\ value \in Nat /\ reg \in [0 .. Size -> Nat]
  /\ killed \subseteq 1 .. Size

\* main has created the threads in order.
Unborn == \A t \in 1 .. Size : t >= pc[Main] => pc[t] = 0

\* Whoever is between lock and unlock holds the mutex, killed or not, and
\* nobody else does.
Holding == \A t \in 1 .. Size : owner[1] = t <=> pc[t] > 0 /\ Phase(t) # 0

\* What the holder has loaded is still the value.
Fresh == \A t \in 1 .. Size : pc[t] > 0 /\ Phase(t) = 2 => reg[t] = value

\* Every store has counted.
Counted == IsFiniteSet(Stores) /\ value = Cardinality(Stores)

CountInv == CountTypeOK /\ Unborn /\ Holding /\ Fresh /\ Counted

-------------------------------------------------------------------------------
(* Two threads                                                             *)

\* semaphore.c and livelock.c: main creates the two threads in order.
PairInv ==
  /\ pc \in [0 .. 2 -> Nat] /\ pc[Main] \in 1 .. 5
  /\ \A t \in {1, 2} : t >= pc[Main] => pc[t] = 0

-------------------------------------------------------------------------------
(* The semaphore                                                           *)

\* How many calls of a kind a thread has made.
Calling(t, call) == Cardinality(Made(t, call))

\* Whether thread t has made the first call of an iteration and not the second.
Midway(t) == IF pc[t] > 0 THEN (pc[t] - 1) % 2 ELSE 0

\* What is posted and not waited for is the value of the semaphore.
SemaphoreInv ==
  /\ PairInv /\ sem \in Nat /\ killed = {}
  /\ \A t \in {1, 2} :
       /\ pc[t] \in 0 .. 2 * Items + 1
       /\ \A call \in {"produce", "post", "wait", "consume"} :
            IsFiniteSet(Made(t, call)) /\ Calling(t, call) \in Nat
  /\ Calling(2, "wait") + sem = Calling(1, "post")
  /\ Calling(1, "produce") = Calling(1, "post") + Midway(1)
  /\ Calling(2, "wait") = Calling(2, "consume") + Midway(2)

-------------------------------------------------------------------------------
(* The flags                                                               *)

\* A flag is up from the call that raises it to the one that lowers it, and of
\* two threads that both have looked one has seen the other's.
LivelockInv ==
  /\ PairInv /\ killed = {}
  /\ \A t \in {1, 2} : pc[t] \in 0 .. 4
  /\ flag \subseteq {1, 2}
  /\ \A t \in {1, 2} : t \in flag <=> pc[t] \in {2, 3, 4}
  /\ ~(pc[1] = 3 /\ pc[2] = 3)

-------------------------------------------------------------------------------
(* The robust mutex                                                        *)

\* The child has come as far as the mutex.
Locked == pc[1] > 1

DeathInv ==
  /\ pc \in [{0, 1} -> Nat] /\ pc[Main] \in 1 .. 7 /\ pc[1] \in 0 .. 3
  /\ owner \in [{1, 2} -> Int] /\ dead_owner \in BOOLEAN /\ killed \subseteq {1}
  /\ pc[Main] = 1 => pc[1] = 0 
  /\ pc[Main] > 1 => pc[1] > 0
  /\ pc[Main] > 2 => Ended(1)
  /\ pc[Main] <= 3 => owner[1] = IF Locked THEN 1 ELSE Nobody
  /\ pc[Main] \in 4 .. 6 => owner[1] = Main
  /\ pc[Main] = 7 => owner[1] = Nobody
  /\ dead_owner <=> pc[Main] = 4 /\ Locked
  /\ pc[Main] = 5 => Locked
  /\ pc[Main] <= 3 => value = IF pc[1] = 3 THEN 42 ELSE 0
  /\ pc[Main] = 4 /\ ~Locked => value = 0
  /\ pc[Main] > 5 => value = IF Locked THEN 99 ELSE 0

Inv ==
  /\ program \in DOMAIN Code
  /\ Counts => CountInv
  /\ program = "semaphore" => SemaphoreInv
  /\ program = "livelock" => LivelockInv
  /\ program = "mutex_death" => DeathInv

-------------------------------------------------------------------------------
(* The calls                                                               *)

\* The calls of each thread of the counting programs.
LEMMA CountingCode ==
  ASSUME Counts
  PROVE  /\ Size \in Nat \ {0} /\ Ids = 0 .. Size /\ Others = 1 .. Size
         /\ Len(Code[program][Main]) = 2 * Size
         /\ \A k \in 1 .. Size : Code[program][Main][k] = Op("create", k)
         /\ \A k \in Size + 1 .. 2 * Size : Code[program][Main][k].call \in {"join", "reap"}
         /\ \A t \in 1 .. Size :
              /\ Len(Code[program][t]) = 4 * Iterations
              /\ \A k \in 1 .. 4 * Iterations : Code[program][t][k] = Increment[((k - 1) % 4) + 1]
PROOF
<1> DEFINE last == IF program = "counter" THEN "join" ELSE "reap"
           main == Each("create", Size) \o Each(last, Size)
           threads == Counting(Size)
<1>1. Size \in Nat \ {0} /\ Iterations \in Nat \ {0}
  BY SynchronisationAssumption DEF Size, Counts
<1>2. Code[program] = With(main, threads)
  BY DEF Counts, Code, Threaded, Forking, Size
<1>3. Len(threads) = Size
  BY <1>1 DEF Counting
<1>4. Len(Increment) = 4
  BY DEF Increment
<1>5. Len(Each("create", Size)) = Size /\ Len(Each(last, Size)) = Size
  BY <1>1 DEF Each
<1>6. Len(main) = 2 * Size
  BY <1>1, <1>5 DEF Each
<1>7. /\ Ids = 0 .. Size /\ Others = 1 .. Size /\ Code[program][Main] = main
      /\ \A t \in 1 .. Size : Code[program][t] = threads[t]
  BY <1>1, <1>2, <1>3 DEF Ids, Others, With, Main
<1>8. \A k \in 1 .. Size : main[k] = Op("create", k)
  BY <1>1, <1>5 DEF Each
<1>9. \A k \in Size + 1 .. 2 * Size : main[k].call \in {"join", "reap"}
  <2> SUFFICES ASSUME NEW k \in Size + 1 .. 2 * Size
               PROVE  main[k].call = last
    OBVIOUS
  <2>1. k - Size \in 1 .. Size
    BY <1>1
  <2>2. main[k] = Each(last, Size)[k - Size]
    BY <1>1, <1>5, <2>1 DEF Each
  <2>3. Each(last, Size)[k - Size].call = last
    <3> HIDE DEF last
    <3> QED
      BY <2>1 DEF Each, Op
  <2> HIDE DEF main, last
  <2> QED
    BY <2>2, <2>3
<1>10. ASSUME NEW t \in 1 .. Size
       PROVE  /\ Len(threads[t]) = 4 * Iterations
              /\ \A k \in 1 .. 4 * Iterations : threads[t][k] = Increment[((k - 1) % 4) + 1]
  <2>1. threads[t] = [k \in 1 .. Iterations * 4 |-> Increment[((k - 1) % 4) + 1]]
    BY <1>1, <1>4 DEF Counting, Repeat
  <2> QED
    BY <1>1, <2>1
<1> QED
  BY <1>1, <1>6, <1>7, <1>8, <1>9, <1>10, ZenonT(60)

\* A call makes the calls of its kind one more,
LEMMA MadeOneMore ==
  ASSUME NEW t, NEW call, program' = program, pc[t] \in Nat \ {0}, pc'[t] = pc[t] + 1
  PROVE  /\ Calls(t, call) => Made(t, call)' = Made(t, call) \cup {pc[t]}
         /\ Code[program][t][pc[t]].call # call => Made(t, call)' = Made(t, call)
         /\ pc[t] \notin Made(t, call)
PROOF
<1>1. Made(t, call)' = {k \in 1 .. pc[t] : Code[program][t][k].call = call}
  BY DEF Made
<1>2. \A k : k \in 1 .. pc[t] <=> k \in 1 .. pc[t] - 1 \/ k = pc[t]
  OBVIOUS
<1>3. Calls(t, call) => Code[program][t][pc[t]].call = call
  BY DEF Calls
<1> QED
  BY <1>1, <1>2, <1>3 DEF Made

\* and leaves those of the other threads, which includes one that is created.
LEMMA MadeByOthers ==
  ASSUME NEW t, NEW call, program' = program, pc[t] \in Nat,
         pc'[t] = pc[t] \/ (pc[t] = 0 /\ pc'[t] = 1)
  PROVE  Made(t, call)' = Made(t, call)
PROOF
<1>1. 1 .. pc'[t] - 1 = 1 .. pc[t] - 1
  OBVIOUS
<1> QED
  BY <1>1 DEF Made

\* Where a thread of the counting programs is when it makes a call.
LEMMA CountingThread ==
  ASSUME Counts, CountInv, NEW t \in 1 .. Size, Running(t)
  PROVE  /\ pc[t] \in 1 .. 4 * Iterations /\ Phase(t) \in 0 .. 3
         /\ Code[program][t][pc[t]] = Increment[Phase(t) + 1]
         /\ pc[t] % 4 = IF Phase(t) = 3 THEN 0 ELSE Phase(t) + 1
PROOF
<1>1. /\ Len(Code[program][t]) = 4 * Iterations
      /\ \A k \in 1 .. 4 * Iterations : Code[program][t][k] = Increment[((k - 1) % 4) + 1]
  BY CountingCode
<1>2. Iterations \in Nat
  BY SynchronisationAssumption
<1>3. pc[t] \in 1 .. 4 * Iterations
  BY <1>1, <1>2 DEF CountInv, CountTypeOK, Running, Ended
<1>4. Code[program][t][pc[t]] = Increment[Phase(t) + 1]
  BY <1>1, <1>3 DEF Phase
<1>5. Phase(t) \in 0 .. 3 /\ pc[t] % 4 = IF Phase(t) = 3 THEN 0 ELSE Phase(t) + 1
  BY <1>2, <1>3 DEF Phase
<1> QED
  BY <1>3, <1>4, <1>5

\* Each call is the one of its phase.
LEMMA CountingCalls ==
  ASSUME Counts, CountInv, NEW t \in 1 .. Size, NEW call, Calls(t, call)
  PROVE  /\ call = <<"lock", "load", "store", "unlock">>[Phase(t) + 1]
         /\ call \in {"lock", "unlock"} => On(t) = 1
  BY CountingThread DEF Calls, On, Increment, Op

\* The stores are the same while no thread makes one,
LEMMA SameStores ==
  ASSUME program' = program, \A u \in Others : Made(u, "store")' = Made(u, "store")
  PROVE  Stores' = Stores
PROOF
<1>1. Others' = Others
  BY DEF Others, Ids
<1> QED
  BY <1>1 DEF Stores

\* and one more when one does.
LEMMA OneMoreStore ==
  ASSUME program' = program, NEW t \in Others, NEW k, k \notin Made(t, "store"),
         Made(t, "store")' = Made(t, "store") \cup {k},
         \A u \in Others \ {t} : Made(u, "store")' = Made(u, "store"),
         IsFiniteSet(Stores)
  PROVE  IsFiniteSet(Stores') /\ Cardinality(Stores') = Cardinality(Stores) + 1
PROOF
<1>1. Others' = Others
  BY DEF Others, Ids
<1>2. Stores' = Stores \cup {<<t, k>>}
  <2>1. \A x : x \in Stores <=> \E u \in Others : \E j \in Made(u, "store") : x = <<u, j>>
    BY DEF Stores
  <2>2. \A x : x \in Stores' <=> \E u \in Others : \E j \in Made(u, "store")' : x = <<u, j>>
    BY <1>1 DEF Stores
  <2>3. ASSUME NEW x, x \in Stores'
        PROVE  x \in Stores \cup {<<t, k>>}
    <3>1. PICK u \in Others : \E j \in Made(u, "store")' : x = <<u, j>>
      BY <2>2, <2>3
    <3>2. PICK j \in Made(u, "store")' : x = <<u, j>>
      BY <3>1
    <3> QED
      BY <2>1, <3>2
  <2>4. ASSUME NEW x, x \in Stores \cup {<<t, k>>}
        PROVE  x \in Stores'
    <3>1. CASE x = <<t, k>>
      BY <2>2, <3>1
    <3>2. CASE x \in Stores
      <4>1. PICK u \in Others : \E j \in Made(u, "store") : x = <<u, j>>
        BY <2>1, <3>2
      <4>2. PICK j \in Made(u, "store") : x = <<u, j>>
        BY <4>1
      <4>3. j \in Made(u, "store")'
        BY <4>2
      <4> QED
        BY <2>2, <4>2, <4>3
    <3> QED
      BY <2>4, <3>1, <3>2
  <2> QED
    BY <2>3, <2>4
<1>3. <<t, k>> \notin Stores
  BY SMTT(30) DEF Stores
<1> QED
  BY <1>2, <1>3, FS_AddElement

\* The call that thread t is at.
CallOf(t) == Code[program][t][pc[t]].call

\* Every step is the call that the thread is at.
LEMMA StepIsCall ==
  ASSUME NEW t
  PROVE  /\ Step(t) => Running(t)
         /\ (Create(t) => CallOf(t) = "create") /\ (Join(t) => CallOf(t) = "join")
         /\ (Reap(t) => CallOf(t) = "reap") /\ (Lock(t) => CallOf(t) = "lock")
         /\ (Unlock(t) => CallOf(t) = "unlock") /\ (Load(t) => CallOf(t) = "load")
         /\ (Store(t) => CallOf(t) = "store") /\ (Recover(t) => CallOf(t) = "recover")
         /\ (Set(t) => CallOf(t) = "set") /\ (Post(t) => CallOf(t) = "post")
         /\ (Wait(t) => CallOf(t) = "wait") /\ (Raise(t) => CallOf(t) = "raise")
         /\ (Look(t) => CallOf(t) = "look") /\ (Lower(t) => CallOf(t) = "lower")
         /\ Talk(t) => CallOf(t) \in {"produce", "consume", "work"}
  BY DEF Step, Create, Join, Reap, Lock, Unlock, Load, Store, Recover, Set, Post, Wait,
     Raise, Look, Lower, Talk, Calls, CallOf

\* What a step of the counting programs can be.
LEMMA CountingSteps ==
  ASSUME Counts, CountInv, NEW t \in 0 .. Size, Step(t)
  PROVE  /\ t = Main => \/ (Create(t) /\ pc[Main] \in 1 .. Size)
                       \/ ((Join(t) \/ Reap(t)) /\ pc[Main] > Size)
         /\ t # Main => Lock(t) \/ Load(t) \/ Store(t) \/ Unlock(t)
PROOF
<1>1. Running(t)
  BY StepIsCall
<1>2. CASE t = Main
  <2>1. pc[Main] \in 1 .. 2 * Size /\ Size \in Nat
    BY <1>1, <1>2, CountingCode DEF Running, Ended, CountInv, CountTypeOK
  <2>2. CASE pc[Main] \in 1 .. Size
    <3>1. Code[program][Main][pc[Main]] = Op("create", pc[Main])
      BY <2>2, CountingCode
    <3>2. CallOf(t) = "create"
      BY <1>2, <3>1 DEF CallOf, Op
    <3>3. Create(t)
      BY <3>2, StepIsCall DEF Step
    <3> QED
      BY <1>2, <2>2, <3>3
  <2>3. CASE pc[Main] \in Size + 1 .. 2 * Size
    <3>1. CallOf(t) \in {"join", "reap"}
      BY <1>2, <2>3, CountingCode DEF CallOf
    <3>2. pc[Main] > Size
      BY <2>1, <2>3
    <3> QED
      BY <1>2, <3>1, <3>2, StepIsCall DEF Step
  <2> QED
    BY <2>1, <2>2, <2>3
<1>3. CASE t # Main
  <2>1. t \in 1 .. Size
    BY <1>3, CountingCode DEF Main
  <2>2. CallOf(t) \in {"lock", "load", "store", "unlock"}
    BY <1>1, <2>1, CountingThread DEF CallOf, Increment, Op
  <2> QED
    BY <1>3, <2>2, StepIsCall DEF Step
<1> QED
  BY <1>2, <1>3

\* main keeps the invariant of the counting programs.
LEMMA CountingMainOK ==
  ASSUME Counts, CountInv, Step(Main)
  PROVE  CountInv'
PROOF
<1>1. /\ Size \in Nat \ {0} /\ Ids = 0 .. Size /\ Others = 1 .. Size
      /\ \A k \in 1 .. Size : Code[program][Main][k] = Op("create", k)
      /\ Len(Code[program][Main]) = 2 * Size
      /\ Iterations \in Nat \ {0}
  BY CountingCode, SynchronisationAssumption
<1>2. pc[Main] \in 1 .. 2 * Size
  BY <1>1, StepIsCall, SMTT(30) DEF Running, Ended, CountInv, CountTypeOK
<1>3. /\ \/ (Create(Main) /\ pc[Main] \in 1 .. Size)
         \/ ((Join(Main) \/ Reap(Main)) /\ pc[Main] > Size)
      /\ UNCHANGED <<program, data, killed>>
  <2>1. Main \in 0 .. Size
    BY <1>1 DEF Main
  <2>2. \/ (Create(Main) /\ pc[Main] \in 1 .. Size)
        \/ ((Join(Main) \/ Reap(Main)) /\ pc[Main] > Size)
    BY <2>1, CountingSteps
  <2> QED
    BY <2>2 DEF Create, Join, Reap, Only
<1>4. Size' = Size /\ Others' = Others
  BY <1>3 DEF Size, Others, Ids
<1>5. CASE Create(Main) /\ pc[Main] \in 1 .. Size
  <2>1. On(Main) = pc[Main] /\ pc[pc[Main]] = 0
    <3>1. Code[program][Main][pc[Main]] = Op("create", pc[Main])
      BY <1>1, <1>5
    <3>2. pc[Main] >= pc[Main]
      BY <1>1, <1>5
    <3> QED
      BY <1>5, <3>1, <3>2 DEF On, Op, CountInv, Unborn
  <2> DEFINE c == pc[Main]
  <2>2. c \in 1 .. Size /\ c # Main /\ pc[c] = 0 /\ Main \in 0 .. Size /\ c \in 0 .. Size
        /\ Main \notin 1 .. Size
    BY <1>1, <1>5, <2>1 DEF Main
  <2>3. pc' = [pc EXCEPT ![Main] = c + 1, ![c] = 1]
    BY <1>5, <2>1 DEF Create
  <2>4. c = pc[Main]
    OBVIOUS
  <2> HIDE DEF c
  <2>5. /\ pc' \in [0 .. Size -> Nat] /\ pc'[Main] = c + 1 /\ pc'[c] = 1
        /\ \A t \in 1 .. Size : t # c => pc'[t] = pc[t]
    <3>1. pc \in [0 .. Size -> Nat] /\ c + 1 \in Nat
      BY <1>1, <2>2, SMTT(30) DEF CountInv, CountTypeOK
    <3> QED
      BY <2>2, <2>3, <3>1
  <2>6. CountTypeOK'
    <3>1. pc'[Main] \in 1 .. 2 * Size + 1
      BY <1>1, <2>2, <2>5
    <3>2. \A t \in 1 .. Size : pc'[t] \in 0 .. 4 * Iterations + 1
      <4>1. 1 \in 0 .. 4 * Iterations + 1
        BY <1>1
      <4> QED
        BY <2>5, <4>1 DEF CountInv, CountTypeOK
    <3> QED
      BY <1>3, <1>4, <2>5, <3>1, <3>2 DEF CountInv, CountTypeOK, data
  <2>7. Unborn'
    <3>1. \A t \in 1 .. Size : t >= c + 1 => pc'[t] = 0
      BY <1>1, <2>2, <2>4, <2>5, SMTT(30) DEF CountInv, Unborn
    <3> QED
      BY <1>4, <2>5, <3>1 DEF Unborn
  <2>8. Stores' = Stores
    <3>1. \A t \in 1 .. Size : Made(t, "store")' = Made(t, "store")
      BY <1>3, <2>2, <2>5, MadeByOthers, SMTT(30) DEF CountInv, CountTypeOK
    <3> QED
      BY <1>1, <1>3, <3>1, SameStores
  <2>9. Holding' /\ Fresh'
    <3>1. (1 - 1) % 4 = 0
      OBVIOUS
    <3>2. \A t \in 1 .. Size : pc'[t] > 0 /\ Phase(t)' # 0 <=> pc[t] > 0 /\ Phase(t) # 0
      BY <2>2, <2>5, <3>1 DEF Phase
    <3>3. \A t \in 1 .. Size : pc'[t] > 0 /\ Phase(t)' = 2 <=> pc[t] > 0 /\ Phase(t) = 2
      BY <2>2, <2>5, <3>1 DEF Phase
    <3> QED
      BY <1>3, <1>4, <3>2, <3>3 DEF CountInv, Holding, Fresh, data
  <2> QED
    BY <1>3, <1>4, <2>6, <2>7, <2>8, <2>9 DEF CountInv, Counted, data
<1>6. CASE (Join(Main) \/ Reap(Main)) /\ pc[Main] > Size
  <2>1. pc' = [pc EXCEPT ![Main] = pc[Main] + 1]
    BY <1>6 DEF Join, Reap, Return, GoOn
  <2>2. /\ pc' \in [0 .. Size -> Nat] /\ pc'[Main] = pc[Main] + 1
        /\ \A t \in 1 .. Size : pc'[t] = pc[t]
    BY <1>1, <1>2, <2>1, SMTT(30) DEF CountInv, CountTypeOK, Main
  <2>3. CountTypeOK' /\ Unborn'
    <3>1. pc'[Main] \in 1 .. 2 * Size + 1
      BY <1>1, <1>2, <2>2
    <3>2. CountTypeOK'
      BY <1>3, <1>4, <2>2, <3>1 DEF CountInv, CountTypeOK, data
    <3>3. \A t \in 1 .. Size : t >= pc'[Main] => pc'[t] = 0
      <4>1. \A t \in 1 .. Size : t >= pc[Main] + 1 => t >= pc[Main]
        BY <1>1, <1>2
      <4> QED
        BY <2>2, <4>1 DEF CountInv, Unborn
    <3> QED
      BY <1>4, <3>2, <3>3 DEF Unborn
  <2>4. Stores' = Stores
    <3>1. \A t \in 1 .. Size : pc[t] \in Nat
      BY DEF CountInv, CountTypeOK
    <3>2. \A t \in 1 .. Size : Made(t, "store")' = Made(t, "store")
      BY <1>3, <2>2, <3>1, MadeByOthers
    <3> QED
      BY <1>1, <1>3, <3>2, SameStores
  <2>5. Holding' /\ Fresh'
    BY <1>3, <1>4, <2>2 DEF CountInv, Holding, Fresh, Phase, data
  <2> QED
    BY <1>3, <1>4, <2>3, <2>4, <2>5 DEF CountInv, Counted, data
<1> QED
  BY <1>3, <1>5, <1>6

\* An incrementing thread keeps it.
LEMMA CountingThreadOK ==
  ASSUME Counts, CountInv, NEW t \in 1 .. Size, Step(t)
  PROVE  CountInv'
PROOF
<1>1. /\ Size \in Nat \ {0} /\ Ids = 0 .. Size /\ Others = 1 .. Size
      /\ Iterations \in Nat \ {0}
      /\ t \in 0 .. Size /\ t # Main /\ Main \in 0 .. Size /\ t \in Int
  BY CountingCode, SynchronisationAssumption DEF Main
<1>2. Running(t) /\ (Lock(t) \/ Load(t) \/ Store(t) \/ Unlock(t))
  BY <1>1, CountingSteps, StepIsCall
<1>3. /\ pc[t] \in 1 .. 4 * Iterations /\ Phase(t) \in 0 .. 3
      /\ pc[t] % 4 = IF Phase(t) = 3 THEN 0 ELSE Phase(t) + 1
  BY <1>2, CountingThread
<1>4. /\ UNCHANGED <<program, killed>> /\ pc' = [pc EXCEPT ![t] = pc[t] + 1]
  BY <1>2 DEF Lock, Load, Store, Unlock, Only, Return, GoOn, Counts
<1>5. Size' = Size /\ Others' = Others
  BY <1>4 DEF Size, Others, Ids
<1>6. /\ pc' \in [0 .. Size -> Nat] /\ pc'[t] = pc[t] + 1
      /\ \A u \in 0 .. Size : u # t => pc'[u] = pc[u]
  <2>1. pc \in [0 .. Size -> Nat]
    BY DEF CountInv, CountTypeOK
  <2>2. pc[t] + 1 \in Nat
    BY <1>1, <2>1
  <2> QED
    BY <1>1, <1>4, <2>1, <2>2
<1>7. /\ pc'[Main] \in 1 .. 2 * Size + 1
      /\ \A u \in 1 .. Size : pc'[u] \in 0 .. 4 * Iterations + 1
  <2>1. pc[t] + 1 \in 0 .. 4 * Iterations + 1
    BY <1>1, <1>3
  <2>2. \A u \in 1 .. Size : u \in 0 .. Size
    OBVIOUS
  <2> QED
    BY <1>1, <1>6, <2>1, <2>2 DEF CountInv, CountTypeOK
<1>8. Unborn'
  <2>1. \A u \in 1 .. Size : u >= pc[Main] => pc'[u] = 0
    BY <1>1, <1>3, <1>6 DEF CountInv, CountTypeOK, Unborn
  <2> QED
    BY <1>1, <1>5, <1>6, <2>1 DEF Unborn
<1>9. /\ Phase(t)' = IF Phase(t) = 3 THEN 0 ELSE Phase(t) + 1
      /\ pc[t] > 0 /\ pc'[t] > 0
      /\ \A u \in 1 .. Size : u # t => (Phase(u)' = Phase(u) /\ pc'[u] = pc[u])
  <2>1. (pc[t] + 1) - 1 = pc[t] /\ pc[t] > 0 /\ pc[t] + 1 > 0
    BY <1>1, <1>3
  <2>2. Phase(t)' = pc[t] % 4
    BY <1>6, <2>1 DEF Phase
  <2>3. \A u \in 1 .. Size : u # t => pc'[u] = pc[u]
    BY <1>6
  <2> QED
    BY <1>3, <1>6, <2>1, <2>2, <2>3 DEF Phase
<1>10. \A u \in 1 .. Size \ {t} : Made(u, "store")' = Made(u, "store")
  BY <1>1, <1>4, <1>6, MadeByOthers
<1>11. Code[program][t][pc[t]].call = <<"lock", "load", "store", "unlock">>[Phase(t) + 1]
       /\ (CallOf(t) \in {"lock", "unlock"} => On(t) = 1)
  BY <1>2, CountingThread DEF Increment, Op, On, CallOf
<1>12. CallOf(t) # "store" => Stores' = Stores
  <2> SUFFICES ASSUME CallOf(t) # "store"
               PROVE  Made(t, "store")' = Made(t, "store")
    BY <1>1, <1>4, <1>10, SameStores
  <2> QED
    BY <1>3, <1>4, <1>6, MadeOneMore DEF CallOf
<1>13. CASE Lock(t)
  <2>1. CallOf(t) = "lock"
    BY <1>13, StepIsCall
  <2>2. Phase(t) = 0 /\ On(t) = 1
    BY <1>3, <1>11, <2>1 DEF CallOf
  <2>3. /\ owner[1] = Nobody /\ owner' = [owner EXCEPT ![1] = t] /\ dead_owner' = FALSE
        /\ UNCHANGED <<value, reg, sem, flag>>
    BY <1>13, <2>2 DEF Lock, Only, Counts
  <2>4. CountTypeOK'
    BY <1>1, <1>4, <1>5, <1>6, <1>7, <2>3 DEF CountInv, CountTypeOK
  <2>5. Holding'
    <3>1. owner'[1] = t
      BY <2>3 DEF CountInv, CountTypeOK
    <3>2. \A u \in 1 .. Size : pc[u] > 0 => Phase(u) = 0
      BY <2>3 DEF CountInv, Holding, Nobody
    <3> QED
      BY <1>5, <1>9, <2>2, <3>1, <3>2 DEF Holding
  <2>6. Fresh'
    BY <1>5, <1>9, <2>2, <2>3 DEF CountInv, Fresh
  <2> QED
    BY <1>8, <1>12, <2>1, <2>3, <2>4, <2>5, <2>6 DEF CountInv, Counted
<1>14. CASE Load(t)
  <2>1. CallOf(t) = "load"
    BY <1>14, StepIsCall
  <2>2. Phase(t) = 1
    BY <1>3, <1>11, <2>1 DEF CallOf
  <2>3. reg' = [reg EXCEPT ![t] = value] /\ UNCHANGED <<owner, dead_owner, value, sem, flag>>
    BY <1>14 DEF Load, Only
  <2>4. CountTypeOK'
    BY <1>1, <1>4, <1>5, <1>6, <1>7, <2>3 DEF CountInv, CountTypeOK
  <2>5. Holding'
    BY <1>5, <1>9, <2>2, <2>3 DEF CountInv, Holding
  <2>6. Fresh'
    <3>1. reg'[t] = value /\ \A u \in 1 .. Size : u # t => reg'[u] = reg[u]
      BY <1>1, <2>3 DEF CountInv, CountTypeOK
    <3> QED
      BY <1>5, <1>9, <2>3, <3>1 DEF CountInv, Fresh
  <2> QED
    BY <1>8, <1>12, <2>1, <2>3, <2>4, <2>5, <2>6 DEF CountInv, Counted
<1>15. CASE Store(t)
  <2>1. CallOf(t) = "store"
    BY <1>15, StepIsCall
  <2>2. Phase(t) = 2
    BY <1>3, <1>11, <2>1 DEF CallOf
  <2>3. value' = value + 1 /\ UNCHANGED <<owner, dead_owner, reg, sem, flag>>
    BY <1>9, <1>15, <2>2 DEF Store, Only, CountInv, Fresh
  <2>4. CountTypeOK'
    <3>1. value' \in Nat
      BY <2>3 DEF CountInv, CountTypeOK
    <3> QED
      BY <1>4, <1>5, <1>6, <1>7, <2>3, <3>1 DEF CountInv, CountTypeOK
  <2>5. Holding'
    BY <1>5, <1>9, <2>2, <2>3 DEF CountInv, Holding
  <2>6. Fresh'
    <3>1. ASSUME NEW u \in 1 .. Size, u # t, pc[u] > 0
          PROVE  Phase(u) # 2
      BY <1>9, <2>2, <3>1 DEF CountInv, Holding
    <3> QED
      BY <1>5, <1>9, <2>2, <3>1 DEF Fresh
  <2>7. IsFiniteSet(Stores') /\ Cardinality(Stores') = Cardinality(Stores) + 1
    <3>1. Made(t, "store")' = Made(t, "store") \cup {pc[t]} /\ pc[t] \notin Made(t, "store")
      <4>1. Calls(t, "store")
        BY <1>15 DEF Store
      <4> QED
        BY <1>3, <1>4, <1>6, <4>1, MadeOneMore
    <3> QED
      BY <1>1, <1>4, <1>10, <3>1, OneMoreStore DEF CountInv, Counted
  <2> QED
    BY <1>8, <2>3, <2>4, <2>5, <2>6, <2>7 DEF CountInv, Counted
<1>16. CASE Unlock(t)
  <2>1. CallOf(t) = "unlock"
    BY <1>16, StepIsCall
  <2>2. Phase(t) = 3 /\ On(t) = 1
    BY <1>3, <1>11, <2>1 DEF CallOf
  <2>3. owner' = [owner EXCEPT ![1] = Nobody] /\ UNCHANGED <<dead_owner, value, reg, sem, flag>>
    BY <1>16, <2>2 DEF Unlock, Only, CountInv, CountTypeOK
  <2>4. CountTypeOK'
    <3>1. owner' \in [{1, 2} -> Int]
      BY <2>3 DEF CountInv, CountTypeOK, Nobody
    <3> QED
      BY <1>4, <1>5, <1>6, <1>7, <2>3, <3>1 DEF CountInv, CountTypeOK
  <2>5. Holding'
    <3>1. owner'[1] = Nobody /\ owner[1] = t
      BY <1>9, <2>2, <2>3 DEF CountInv, CountTypeOK, Holding
    <3>2. \A u \in 1 .. Size : u # t => ~(pc[u] > 0 /\ Phase(u) # 0)
      BY <3>1 DEF CountInv, Holding
    <3> QED
      BY <1>5, <1>9, <2>2, <3>1, <3>2 DEF Holding, Nobody
  <2>6. Fresh'
    BY <1>5, <1>9, <2>2, <2>3 DEF CountInv, Fresh
  <2> QED
    BY <1>8, <1>12, <2>1, <2>3, <2>4, <2>5, <2>6 DEF CountInv, Counted
<1> QED
  BY <1>2, <1>13, <1>14, <1>15, <1>16

\* A kill changes nothing but the set of the killed.
LEMMA CountingKillOK ==
  ASSUME Counts, CountInv, NEW c \in 1 .. Size, Kill(c)
  PROVE  CountInv'
PROOF
<1>1. /\ UNCHANGED <<program, pc, data>> /\ killed' \subseteq 1 .. Size
      /\ Size' = Size /\ Others' = Others /\ Others = 1 .. Size
  BY CountingCode DEF Kill, CountInv, CountTypeOK, Size, Others, Ids
<1>2. \A u : Made(u, "store")' = Made(u, "store") /\ Phase(u)' = Phase(u)
  BY <1>1 DEF Made, Phase
<1>3. Stores' = Stores
  BY <1>1, <1>2, SameStores
<1>4. CountTypeOK' /\ Unborn'
  BY <1>1 DEF CountInv, CountTypeOK, Unborn, data
<1>5. Holding' /\ Fresh'
  BY <1>1, <1>2 DEF CountInv, Holding, Fresh, data
<1> QED
  BY <1>1, <1>3, <1>4, <1>5 DEF CountInv, Counted, data

\* The counting programs start in their invariant.
LEMMA CountingInit ==
  ASSUME Init, Counts
  PROVE  CountInv
PROOF
<1>1. /\ Size \in Nat \ {0} /\ Ids = 0 .. Size /\ Others = 1 .. Size /\ Iterations \in Nat \ {0}
  BY CountingCode, SynchronisationAssumption
<1>2. /\ pc \in [0 .. Size -> Nat] /\ pc[Main] = 1 /\ \A t \in 1 .. Size : pc[t] = 0
  BY <1>1 DEF Init, Main
<1>3. CountTypeOK
  BY <1>1, <1>2 DEF Init, CountTypeOK, Nobody
<1>4. Stores = {}
  <2>1. \A t \in Others : Made(t, "store") = {}
    BY <1>1, <1>2 DEF Made
  <2> QED
    BY <2>1 DEF Stores
<1>5. Unborn /\ Holding /\ Fresh
  <2>1. owner[1] = Nobody
    BY DEF Init
  <2>2. \A t \in 1 .. Size : Nobody # t
    BY <1>1 DEF Nobody
  <2> QED
    BY <1>2, <2>1, <2>2 DEF Unborn, Holding, Fresh
<1> QED
  BY <1>3, <1>4, <1>5, FS_EmptySet DEF CountInv, Counted, Init

-------------------------------------------------------------------------------
(* Posts and waits                                                         *)

\* main creates and joins two threads.
LEMMA TwoThreads ==
  /\ Len(Threaded(2)) = 4
  /\ Threaded(2)[1] = Op("create", 1) /\ Threaded(2)[2] = Op("create", 2)
  /\ Threaded(2)[3] = Op("join", 1) /\ Threaded(2)[4] = Op("join", 2)
PROOF
<1>1. Len(Each("create", 2)) = 2 /\ Len(Each("join", 2)) = 2
  BY DEF Each
<1> QED
  BY <1>1 DEF Threaded, Each

\* The calls of main and of the two threads of semaphore.c.
LEMMA SemaphoreCode ==
  ASSUME program = "semaphore"
  PROVE  /\ Ids = 0 .. 2 /\ Others = {1, 2} /\ Items \in Nat \ {0}
         /\ Code[program][Main] = Threaded(2)
         /\ \A t \in {1, 2} : Len(Code[program][t]) = 2 * Items
         /\ \A k \in 1 .. 2 * Items :
              /\ Code[program][1][k].call = IF (k - 1) % 2 = 0 THEN "produce" ELSE "post"
              /\ Code[program][2][k].call = IF (k - 1) % 2 = 0 THEN "wait" ELSE "consume"
PROOF
<1>1. Items \in Nat \ {0}
  BY SynchronisationAssumption
<1>2. Code[program] = With(Threaded(2), <<Writer, Reader>>)
  BY DEF Code
<1>3. Len(<<Writer, Reader>>) = 2
  OBVIOUS
<1>4. /\ Ids = 0 .. 2 /\ Others = {1, 2} /\ Code[program][Main] = Threaded(2)
      /\ Code[program][1] = Writer /\ Code[program][2] = Reader
  BY <1>2, <1>3 DEF Ids, Others, With, Main
<1>6. /\ Writer = [k \in 1 .. Items * 2 |-> <<Op("produce", 0), Op("post", 0)>>[((k - 1) % 2) + 1]]
      /\ Reader = [k \in 1 .. Items * 2 |-> <<Op("wait", 0), Op("consume", 0)>>[((k - 1) % 2) + 1]]
  BY DEF Writer, Reader, Repeat
<1>7. Len(Writer) = 2 * Items /\ Len(Reader) = 2 * Items
  BY <1>1, <1>6
<1>8. ASSUME NEW k \in 1 .. 2 * Items
      PROVE  /\ Writer[k].call = IF (k - 1) % 2 = 0 THEN "produce" ELSE "post"
             /\ Reader[k].call = IF (k - 1) % 2 = 0 THEN "wait" ELSE "consume"
  <2>1. (k - 1) % 2 \in {0, 1} /\ k \in 1 .. Items * 2
    BY <1>1
  <2> QED
    BY <1>6, <2>1 DEF Op
<1> QED
  BY <1>1, <1>4, <1>7, <1>8

\* The calls of the two threads of livelock.c.
LEMMA LivelockCode ==
  ASSUME program = "livelock"
  PROVE  /\ Ids = 0 .. 2 /\ Others = {1, 2} /\ Code[program][Main] = Threaded(2)
         /\ \A t \in {1, 2} : Code[program][t] = Polite
PROOF
<1>1. Code[program] = With(Threaded(2), <<Polite, Polite>>)
  BY DEF Code
<1>2. Len(<<Polite, Polite>>) = 2
  OBVIOUS
<1> QED
  BY <1>1, <1>2 DEF Ids, Others, With, Main

\* A step of main creates a thread or leaves both as they are.
LEMMA PairMain ==
  ASSUME program \in {"semaphore", "livelock"}, PairInv, Step(Main)
  PROVE  /\ UNCHANGED <<program, data, killed>> /\ PairInv'
         /\ \A t \in {1, 2} : pc'[t] = pc[t] \/ (pc[t] = 0 /\ pc'[t] = 1)
PROOF
<1>1. Code[program][Main] = Threaded(2)
  BY SemaphoreCode, LivelockCode
<1>2. pc[Main] \in 1 .. 4
  <2>1. Len(Code[program][Main]) = 4
    BY <1>1, TwoThreads
  <2>2. Running(Main)
    BY StepIsCall
  <2>3. ~(pc[Main] > 4)
    BY <2>1, <2>2 DEF Running, Ended
  <2> QED
    BY <2>3 DEF PairInv
<1>3. CASE pc[Main] \in {1, 2}
  <2>1. CallOf(Main) = "create" /\ On(Main) = pc[Main]
    BY <1>1, <1>3, TwoThreads DEF CallOf, On, Op
  <2>2. Create(Main)
    BY <2>1, StepIsCall DEF Step
  <2>3. UNCHANGED <<program, data, killed>>
    BY <2>2 DEF Create, Only
  <2>4. pc' = [pc EXCEPT ![Main] = pc[Main] + 1, ![pc[Main]] = 1]
    BY <2>1, <2>2 DEF Create
  <2>5. pc[pc[Main]] = 0
    BY <1>3 DEF PairInv
  <2>6. CASE pc[Main] = 1
    <3>1. pc' = [pc EXCEPT ![0] = 2, ![1] = 1] /\ pc[1] = 0 /\ pc[2] = 0
      BY <2>4, <2>6 DEF Main, PairInv
    <3> QED
      BY <2>3, <3>1 DEF PairInv, Main
  <2>7. CASE pc[Main] = 2
    <3>1. pc' = [pc EXCEPT ![0] = 3, ![2] = 1] /\ pc[2] = 0
      BY <2>4, <2>5, <2>7 DEF Main
    <3> QED
      BY <2>3, <3>1 DEF PairInv, Main
  <2> QED
    BY <1>3, <2>6, <2>7
<1>4. CASE pc[Main] \in {3, 4}
  <2>1. CallOf(Main) = "join"
    BY <1>1, <1>4, TwoThreads DEF CallOf, Op
  <2>2. Join(Main)
    BY <2>1, StepIsCall DEF Step
  <2>3. UNCHANGED <<program, data, killed>> /\ pc' = [pc EXCEPT ![0] = pc[0] + 1]
    BY <2>2 DEF Join, Only, Return, GoOn, Main
  <2> QED
    BY <1>4, <2>3 DEF PairInv, Main
<1> QED
  BY <1>2, <1>3, <1>4

\* Made calls of one kind are one more after such a call, and otherwise the same.
LEMMA CallingOneMore ==
  ASSUME NEW t, NEW call, program' = program, Running(t), pc[t] \in Nat, pc'[t] = pc[t] + 1,
         IsFiniteSet(Made(t, call)), Calling(t, call) \in Nat
  PROVE  /\ IsFiniteSet(Made(t, call)')
         /\ Calling(t, call)' = Calling(t, call) + IF CallOf(t) = call THEN 1 ELSE 0
PROOF
<1>1. pc[t] \in Nat \ {0}
  BY DEF Running
<1>2. CASE CallOf(t) = call
  <2>1. Made(t, call)' = Made(t, call) \cup {pc[t]} /\ pc[t] \notin Made(t, call)
    BY <1>1, <1>2, MadeOneMore DEF Calls, CallOf
  <2>2. /\ IsFiniteSet(Made(t, call)')
        /\ Cardinality(Made(t, call)') = Cardinality(Made(t, call)) + 1
    BY <2>1, FS_AddElement, SMTT(30)
  <2> QED
    BY <1>2, <2>1, <2>2 DEF Calling
<1>3. CASE CallOf(t) # call
  <2>1. Made(t, call)' = Made(t, call)
    BY <1>1, <1>3, MadeOneMore DEF CallOf
  <2> QED
    BY <1>3, <2>1 DEF Calling
<1> QED
  BY <1>2, <1>3

\* A step of main keeps the invariant of semaphore.c.
LEMMA SemaphoreMainOK ==
  ASSUME program = "semaphore", SemaphoreInv, Step(Main)
  PROVE  SemaphoreInv'
PROOF
<1>1. /\ UNCHANGED <<program, data, killed>> /\ PairInv'
      /\ \A t \in {1, 2} : pc'[t] = pc[t] \/ (pc[t] = 0 /\ pc'[t] = 1)
  BY PairMain DEF SemaphoreInv
<1>2. \A t \in {1, 2} : pc[t] \in Nat /\ 1 \in 0 .. 2 * Items + 1
  BY SynchronisationAssumption DEF SemaphoreInv, PairInv
<1>3. \A t \in {1, 2} : \A call : Made(t, call)' = Made(t, call)
  BY <1>1, <1>2, MadeByOthers
<1>4. \A t \in {1, 2} : Midway(t)' = Midway(t)
  <2>1. (1 - 1) % 2 = 0
    OBVIOUS
  <2> QED
    BY <1>1, <2>1 DEF Midway
<1>5. \A t \in {1, 2} : \A call : Calling(t, call)' = Calling(t, call)
  BY <1>3 DEF Calling
<1>6. \A t \in {1, 2} : pc'[t] \in 0 .. 2 * Items + 1
  BY <1>1, <1>2 DEF SemaphoreInv
<1> QED
  BY <1>1, <1>3, <1>4, <1>5, <1>6 DEF SemaphoreInv, data

\* A step of the writer or the reader keeps it.
LEMMA SemaphoreThreadOK ==
  ASSUME program = "semaphore", SemaphoreInv, NEW t \in {1, 2}, Step(t)
  PROVE  SemaphoreInv'
PROOF
<1>1. /\ Items \in Nat \ {0} /\ Len(Code[program][t]) = 2 * Items
      /\ \A k \in 1 .. 2 * Items :
           /\ Code[program][1][k].call = IF (k - 1) % 2 = 0 THEN "produce" ELSE "post"
           /\ Code[program][2][k].call = IF (k - 1) % 2 = 0 THEN "wait" ELSE "consume"
  BY SemaphoreCode
<1>2. Running(t)
  BY StepIsCall
<1>3. pc[t] \in 1 .. 2 * Items
  BY <1>1, <1>2, SMTT(30) DEF Running, Ended, SemaphoreInv
<1>4. Midway(t) = (pc[t] - 1) % 2 /\ Midway(t) \in {0, 1}
  BY <1>1, <1>3 DEF Midway
<1>5. /\ t = 1 => CallOf(1) = IF Midway(1) = 0 THEN "produce" ELSE "post"
      /\ t = 2 => CallOf(2) = IF Midway(2) = 0 THEN "wait" ELSE "consume"
  BY <1>1, <1>3, <1>4 DEF CallOf
<1>6. /\ UNCHANGED <<program, killed>> /\ pc' = [pc EXCEPT ![t] = pc[t] + 1]
      /\ CallOf(t) = "post" => sem' = sem + 1
      /\ CallOf(t) = "wait" => (sem' = sem - 1 /\ sem > 0)
      /\ CallOf(t) \in {"produce", "consume"} => sem' = sem
  <2>1. Talk(t) \/ Post(t) \/ Wait(t)
    BY <1>5, StepIsCall DEF Step
  <2> QED
    BY <2>1, StepIsCall DEF Talk, Post, Wait, Only, Return, GoOn, data
<1>7. /\ pc'[t] = pc[t] + 1 /\ \A u \in {0, 1, 2} \ {t} : pc'[u] = pc[u]
      /\ pc' \in [0 .. 2 -> Nat]
  <2>1. pc \in [0 .. 2 -> Nat]
    BY DEF SemaphoreInv, PairInv
  <2>2. pc[t] + 1 \in Nat
    BY <2>1
  <2> QED
    BY <1>6, <2>1, <2>2
<1>8. PairInv' /\ \A u \in {1, 2} : pc'[u] \in 0 .. 2 * Items + 1
  <2>1. pc[t] + 1 \in 0 .. 2 * Items + 1
    BY <1>1, <1>3
  <2>2. pc'[Main] = pc[Main]
    BY <1>7 DEF Main
  <2>3. \A u \in {1, 2} : pc'[u] \in 0 .. 2 * Items + 1
    BY <1>7, <2>1 DEF SemaphoreInv
  <2>4. \A u \in {1, 2} : u >= pc[Main] => pc'[u] = 0
    BY <1>3, <1>7 DEF SemaphoreInv, PairInv
  <2> QED
    BY <1>7, <2>2, <2>3, <2>4 DEF SemaphoreInv, PairInv
<1>9. Midway(t)' = 1 - Midway(t) /\ \A u \in {1, 2} \ {t} : Midway(u)' = Midway(u)
  <2>1. pc[t] > 0 /\ pc[t] + 1 > 0 /\ (pc[t] + 1) - 1 = pc[t]
    BY <1>1, <1>3
  <2>2. pc[t] % 2 = 1 - ((pc[t] - 1) % 2)
    <3>1. \A p \in Nat \ {0} : p % 2 = 1 - ((p - 1) % 2)
      OBVIOUS
    <3>2. pc[t] \in Nat \ {0}
      BY <1>1, <1>3
    <3> QED
      BY <3>1, <3>2
  <2>3. Midway(t)' = pc[t] % 2
    BY <1>7, <2>1 DEF Midway
  <2> QED
    BY <1>4, <1>7, <2>2, <2>3 DEF Midway
<1>10. \A call \in {"produce", "post", "wait", "consume"} :
         /\ IsFiniteSet(Made(t, call)')
         /\ Calling(t, call)' = Calling(t, call) + IF CallOf(t) = call THEN 1 ELSE 0
  <2> SUFFICES ASSUME NEW call \in {"produce", "post", "wait", "consume"}
               PROVE  /\ IsFiniteSet(Made(t, call)')
                      /\ Calling(t, call)' = Calling(t, call) + IF CallOf(t) = call THEN 1 ELSE 0
    OBVIOUS
  <2>1. pc[t] \in Nat
    BY <1>1, <1>3
  <2> QED
    BY <1>2, <1>6, <1>7, <2>1, CallingOneMore DEF SemaphoreInv
<1>11. \A u \in {1, 2} \ {t} : \A call :
         Made(u, call)' = Made(u, call) /\ Calling(u, call)' = Calling(u, call)
  <2>1. \A u \in {1, 2} \ {t} : pc[u] \in Nat
    BY DEF SemaphoreInv, PairInv
  <2> QED
    BY <1>6, <1>7, <2>1, MadeByOthers DEF Calling
<1>12. \A u \in {1, 2} : \A call \in {"produce", "post", "wait", "consume"} :
         IsFiniteSet(Made(u, call)') /\ Calling(u, call)' \in Nat
  BY <1>10, <1>11 DEF SemaphoreInv
<1>13. /\ sem' \in Nat /\ Calling(2, "wait")' + sem' = Calling(1, "post")'
       /\ Calling(1, "produce")' = Calling(1, "post")' + Midway(1)'
       /\ Calling(2, "wait")' = Calling(2, "consume")' + Midway(2)'
  <2>1. CASE t = 1
    BY <1>4, <1>5, <1>6, <1>9, <1>10, <1>11, <2>1 DEF SemaphoreInv
  <2>2. CASE t = 2
    BY <1>4, <1>5, <1>6, <1>9, <1>10, <1>11, <2>2 DEF SemaphoreInv
  <2> QED
    BY <2>1, <2>2
<1> QED
  BY <1>6, <1>8, <1>12, <1>13 DEF SemaphoreInv

\* Both programs start with two threads to be created, and semaphore.c in its
\* invariant.
LEMMA PairInit ==
  ASSUME Init, program \in {"semaphore", "livelock"}
  PROVE  PairInv /\ killed = {} /\ \A t \in {1, 2} : pc[t] = 0
PROOF
<1>1. Ids = 0 .. 2
  BY SemaphoreCode, LivelockCode
<1> QED
  BY <1>1 DEF Init, PairInv, Main

\* Neither thread of semaphore.c has begun, and nothing has been posted.
LEMMA SemaphoreInit ==
  ASSUME Init, program = "semaphore"
  PROVE  SemaphoreInv
PROOF
<1>1. PairInv /\ killed = {} /\ (\A t \in {1, 2} : pc[t] = 0) /\ sem = 0 /\ Items \in Nat
  BY PairInit, SynchronisationAssumption DEF Init
<1>2. \A t \in {1, 2} : \A call : Made(t, call) = {}
  BY <1>1 DEF Made
<1>3. \A t \in {1, 2} : \A call : IsFiniteSet(Made(t, call)) /\ Calling(t, call) = 0
  BY <1>2, FS_EmptySet DEF Calling
<1> QED
  BY <1>1, <1>3 DEF SemaphoreInv, Midway

\* A step of livelock.c keeps its invariant.
LEMMA LivelockStepOK ==
  ASSUME program = "livelock", LivelockInv, NEW t \in {0, 1, 2}, Step(t)
  PROVE  LivelockInv'
PROOF
<1>1. CASE t = Main
  <2>1. /\ UNCHANGED <<program, data, killed>> /\ PairInv'
        /\ \A u \in {1, 2} : pc'[u] = pc[u] \/ (pc[u] = 0 /\ pc'[u] = 1)
    BY <1>1, PairMain DEF LivelockInv
  <2> QED
    BY <2>1 DEF LivelockInv, data
<1>2. CASE t # Main
  <2> DEFINE o == 3 - t
  <2>1. t \in {1, 2} /\ o \in {1, 2} /\ o # t /\ (\A u \in {1, 2} : u = t \/ u = o)
    BY <1>2 DEF Main
  <2>2. Code[program][t] = Polite /\ Len(Polite) = 4
    BY <2>1, LivelockCode DEF Polite
  <2>3. Running(t)
    BY StepIsCall
  <2>4. pc[t] \in 1 .. 4
    BY <2>1, <2>2, <2>3 DEF Running, Ended, LivelockInv
  <2>5. /\ pc[t] = 1 => CallOf(t) = "raise"
        /\ pc[t] = 2 => CallOf(t) = "look"
        /\ pc[t] = 3 => CallOf(t) = "work"
        /\ pc[t] = 4 => CallOf(t) = "lower"
    BY <2>2 DEF CallOf, Polite, Op
  <2>6. \A n : GoOn(t, n) => pc' = [pc EXCEPT ![t] = ((pc[t] + n - 1) % 4) + 1]
    BY <1>2, <2>2 DEF GoOn
  <2>7. /\ UNCHANGED <<program, killed>>
        /\ pc[t] = 1 => (pc' = [pc EXCEPT ![t] = 2] /\ flag' = flag \cup {t})
        /\ pc[t] = 2 => /\ pc' = [pc EXCEPT ![t] = IF flag \ {t} # {} THEN 4 ELSE 3]
                        /\ flag' = flag
        /\ pc[t] = 3 => (pc' = [pc EXCEPT ![t] = 4] /\ flag' = flag)
        /\ pc[t] = 4 => (pc' = [pc EXCEPT ![t] = 1] /\ flag' = flag \ {t})
    <3>1. CASE pc[t] = 1
      <4>1. Raise(t)
        BY <2>5, <3>1, StepIsCall DEF Step
      <4> QED
        BY <2>6, <3>1, <4>1 DEF Raise, Return, Only
    <3>2. CASE pc[t] = 2
      <4>1. Look(t)
        BY <2>5, <3>2, StepIsCall DEF Step
      <4> QED
        BY <2>6, <3>2, <4>1 DEF Look, Only, data
    <3>3. CASE pc[t] = 3
      <4>1. Talk(t)
        BY <2>5, <3>3, StepIsCall DEF Step
      <4> QED
        BY <2>6, <3>3, <4>1 DEF Talk, Return, Only, data
    <3>4. CASE pc[t] = 4
      <4>1. Lower(t)
        BY <2>5, <3>4, StepIsCall DEF Step
      <4> QED
        BY <2>6, <3>4, <4>1 DEF Lower, Return, Only
    <3> QED
      BY <2>4, <3>1, <3>2, <3>3, <3>4
  <2>8. flag \ {t} # {} <=> o \in flag
    BY <2>1 DEF LivelockInv
  <2>9. PairInv'
    BY <2>1, <2>4, <2>7 DEF LivelockInv, PairInv, Main
  <2>10. pc'[o] = pc[o] /\ (o \in flag' <=> o \in flag) /\ flag' \subseteq {1, 2}
    <3>1. o \in 0 .. 2 /\ pc \in [0 .. 2 -> Nat] /\ flag \subseteq {1, 2}
      BY <2>1 DEF LivelockInv, PairInv
    <3> HIDE DEF o
    <3>2. pc'[o] = pc[o]
      BY <2>1, <2>4, <2>7, <3>1
    <3>3. (o \in flag' <=> o \in flag) /\ flag' \subseteq {1, 2}
      <4>1. flag' = flag \/ flag' = flag \cup {t} \/ flag' = flag \ {t}
        <5>1. pc[t] = 1 \/ pc[t] = 2 \/ pc[t] = 3 \/ pc[t] = 4
          BY <2>4
        <5> QED
          BY <2>7, <5>1
      <4> QED
        BY <2>1, <3>1, <4>1
    <3> QED
      BY <3>2, <3>3
  <2>11. /\ pc'[t] \in 1 .. 4
         /\ t \in flag' <=> pc'[t] \in {2, 3, 4}
         /\ pc'[t] = 3 => (pc[t] = 2 /\ o \notin flag)
    BY <2>1, <2>4, <2>7, <2>8 DEF LivelockInv, PairInv
  <2>12. ~(pc'[t] = 3 /\ pc'[o] = 3)
    BY <2>1, <2>10, <2>11 DEF LivelockInv
  <2>13. \A u \in {1, 2} : pc'[u] \in 0 .. 4 /\ (u \in flag' <=> pc'[u] \in {2, 3, 4})
    BY <2>1, <2>10, <2>11 DEF LivelockInv
  <2>14. ~(pc'[1] = 3 /\ pc'[2] = 3)
    BY <2>1, <2>12
  <2> QED
    BY <2>7, <2>9, <2>10, <2>13, <2>14 DEF LivelockInv
<1> QED
  BY <1>1, <1>2

\* livelock.c starts in its invariant.
LEMMA LivelockInit ==
  ASSUME Init, program = "livelock"
  PROVE  LivelockInv
PROOF
<1>1. PairInv /\ killed = {} /\ (\A t \in {1, 2} : pc[t] = 0) /\ flag = {}
  BY PairInit DEF Init
<1> QED
  BY <1>1 DEF LivelockInv

-------------------------------------------------------------------------------
(* The owner that dies                                                     *)

\* The calls of the parent and the child of mutex_death.c.
LEMMA DeathCode ==
  ASSUME program = "mutex_death"
  PROVE  /\ Ids = {0, 1} /\ Others = {1} /\ Len(Code[program][Main]) = 6
         /\ Code[program][Main][1] = Op("create", 1) /\ Code[program][Main][2] = Op("join", 1)
         /\ Code[program][Main][3] = Op("lock", 1) /\ Code[program][Main][4] = Op("recover", 1)
         /\ Code[program][Main][5] = Op("set", 99) /\ Code[program][Main][6] = Op("unlock", 1)
         /\ Code[program][1] = <<Op("lock", 1), Op("set", 42)>>
PROOF
<1>1. Code[program] = With(Recovering, <<Dying>>)
  BY DEF Code
<1>2. Len(<<Dying>>) = 1
  OBVIOUS
<1>3. /\ Ids = {0, 1} /\ Others = {1} /\ Code[program][Main] = Recovering
      /\ Code[program][1] = Dying
  BY <1>1, <1>2 DEF Ids, Others, With, Main
<1>4. Len(Each("create", 1)) = 1 /\ Len(Each("join", 1)) = 1
  BY DEF Each
<1>5. /\ Len(Threaded(1)) = 2
      /\ Threaded(1)[1] = Op("create", 1) /\ Threaded(1)[2] = Op("join", 1)
  BY <1>4 DEF Threaded, Each
<1>6. /\ Len(Recovering) = 6
      /\ Recovering[1] = Op("create", 1) /\ Recovering[2] = Op("join", 1)
      /\ Recovering[3] = Op("lock", 1) /\ Recovering[4] = Op("recover", 1)
      /\ Recovering[5] = Op("set", 99) /\ Recovering[6] = Op("unlock", 1)
  BY <1>4, <1>5 DEF Recovering, Threaded, Each
<1> QED
  BY <1>3, <1>6 DEF Dying

\* The parent or the child makes a call.
LEMMA DeathStepOK ==
  ASSUME program = "mutex_death", DeathInv, NEW t \in {0, 1}, Step(t)
  PROVE  DeathInv'
PROOF
<1>1. Running(t)
  BY StepIsCall
<1> USE DEF Main
<1>2. CASE t = 1
  <2>1. Len(Code[program][1]) = 2 /\ Others = {1}
    BY DeathCode
  <2>2. pc[1] \in {1, 2} /\ pc[Main] = 2 /\ 1 \notin killed
    BY <1>1, <1>2, <2>1 DEF Running, Ended, DeathInv
  <2>3. CASE pc[1] = 1
    <3>1. CallOf(1) = "lock" /\ On(1) = 1
      BY <2>3, DeathCode DEF CallOf, On, Op
    <3>2. Lock(1)
      BY <1>2, <3>1, StepIsCall DEF Step
    <3>3. owner[1] = Nobody
      BY <2>2, <2>3 DEF DeathInv, Locked
    <3>4. /\ owner' = [owner EXCEPT ![1] = 1] /\ dead_owner' = FALSE
          /\ pc' = [pc EXCEPT ![1] = pc[1] + 1]
          /\ UNCHANGED <<program, killed, value>>
      <4>1. ~(owner[1] \in Others)
        BY <2>1, <3>3 DEF Nobody
      <4>2. owner' = [owner EXCEPT ![1] = 1] /\ dead_owner' = FALSE
        BY <3>1, <3>2, <4>1 DEF Lock
      <4> QED
        BY <3>2, <4>2 DEF Lock, Return, GoOn, Only
    <3>5. /\ pc' \in [{0, 1} -> Nat] /\ pc'[0] = 2 /\ pc'[1] = 2
          /\ owner' \in [{1, 2} -> Int] /\ owner'[1] = 1
      BY <2>2, <2>3, <3>4 DEF DeathInv
    <3>6. value' = 0
      BY <2>2, <2>3, <3>4 DEF DeathInv
    <3>7. killed' \subseteq {1} /\ Locked' /\ dead_owner' = FALSE
      BY <3>4, <3>5 DEF DeathInv, Locked
    <3> QED
      <4>0. dead_owner' \in BOOLEAN /\ ~dead_owner'
        BY <3>7
      <4>1. pc'[0] # 4
        BY <3>5
      <4>2. value' = IF pc'[1] = 3 THEN 42 ELSE 0
        BY <3>5, <3>6
      <4> QED
        BY <3>5, <3>7, <4>0, <4>1, <4>2 DEF DeathInv
  <2>4. CASE pc[1] = 2
    <3>1. CallOf(1) = "set" /\ On(1) = 42
      BY <2>4, DeathCode DEF CallOf, On, Op
    <3>2. Set(1)
      BY <1>2, <3>1, StepIsCall DEF Step
    <3>3. /\ value' = 42 /\ pc' = [pc EXCEPT ![1] = pc[1] + 1]
          /\ UNCHANGED <<program, killed, owner, dead_owner>>
      BY <3>1, <3>2 DEF Set, Return, GoOn, Only
    <3> QED
      BY <2>2, <2>4, <3>3 DEF DeathInv, Locked, Ended
  <2> QED
    BY <2>2, <2>3, <2>4
<1>3. CASE t = 0
  <2>1. Len(Code[program][0]) = 6 /\ Others = {1} /\ Len(Code[program][1]) = 2
    BY DeathCode
  <2>2. pc[0] \in 1 .. 6
    BY <1>1, <1>3, <2>1 DEF Running, Ended, DeathInv
  <2>3. CASE pc[0] = 1
    <3>1. CallOf(0) = "create" /\ On(0) = 1
      BY <2>3, DeathCode DEF CallOf, On, Op
    <3>2. Create(0)
      BY <1>3, <3>1, StepIsCall DEF Step
    <3>3. pc' = [pc EXCEPT ![0] = 2, ![1] = 1] /\ UNCHANGED <<program, data, killed>>
      <4>1. pc' = [pc EXCEPT ![0] = pc[0] + 1, ![1] = 1] /\ UNCHANGED <<program, data, killed>>
        BY <3>1, <3>2 DEF Create, Only
      <4> QED
        BY <2>3, <4>1
    <3> QED
      BY <2>3, <3>3 DEF DeathInv, Locked, Ended, data
  <2>4. CASE pc[0] = 2
    <3>1. CallOf(0) = "join" /\ On(0) = 1
      BY <2>4, DeathCode DEF CallOf, On, Op
    <3>2. Join(0)
      BY <1>3, <3>1, StepIsCall DEF Step
    <3>3. pc' = [pc EXCEPT ![0] = 3] /\ UNCHANGED <<program, data, killed>> /\ Ended(1)
      BY <2>4, <3>1, <3>2 DEF Join, Return, GoOn, Only
    <3> QED
      BY <2>4, <3>3 DEF DeathInv, Locked, Ended, data
  <2>5. CASE pc[0] = 3
    <3>1. CallOf(0) = "lock" /\ On(0) = 1
      BY <2>5, DeathCode DEF CallOf, On, Op
    <3>2. Lock(0)
      BY <1>3, <3>1, StepIsCall DEF Step
    <3>3. Ended(1) /\ owner[1] = IF Locked THEN 1 ELSE Nobody
      BY <2>5 DEF DeathInv
    <3>4. /\ owner' = [owner EXCEPT ![1] = 0] /\ (dead_owner' <=> Locked)
          /\ pc' = [pc EXCEPT ![0] = 4] /\ UNCHANGED <<program, killed, value>>
      <4>1. owner[1] \in Others /\ Ended(owner[1]) <=> Locked
        BY <2>1, <3>3 DEF Nobody
      <4>2. /\ owner' = [owner EXCEPT ![1] = 0]
            /\ dead_owner' <=> owner[1] \in Others /\ Ended(owner[1])
        BY <3>1, <3>2 DEF Lock
      <4>3. pc' = [pc EXCEPT ![0] = 4] /\ UNCHANGED <<program, killed, value>>
        BY <2>5, <3>2 DEF Lock, Return, GoOn, Only
      <4> QED
        BY <4>1, <4>2, <4>3
    <3>5. /\ pc' \in [{0, 1} -> Nat] /\ pc'[0] = 4 /\ pc'[1] = pc[1]
          /\ owner' \in [{1, 2} -> Int] /\ owner'[1] = 0 /\ dead_owner' \in BOOLEAN
      <4>1. dead_owner' \in BOOLEAN
        BY <3>2 DEF Lock
      <4> QED
        BY <2>5, <3>4, <4>1 DEF DeathInv
    <3>6. ~Locked => value = 0
      BY <2>5 DEF DeathInv, Locked
    <3> QED
      BY <2>5, <3>3, <3>4, <3>5, <3>6 DEF DeathInv, Locked, Ended
  <2>6. CASE pc[0] = 4
    <3>1. CallOf(0) = "recover"
      BY <2>6, DeathCode DEF CallOf, Op
    <3>2. Recover(0)
      BY <1>3, <3>1, StepIsCall DEF Step
    <3>3. /\ pc' = [pc EXCEPT ![0] = IF dead_owner THEN 5 ELSE 6] /\ dead_owner' = FALSE
          /\ UNCHANGED <<program, killed, owner, value>>
      BY <2>6, <3>2 DEF Recover, GoOn, Only
    <3> QED
      BY <2>6, <3>3, SMTT(30) DEF DeathInv, Locked, Ended
  <2>7. CASE pc[0] = 5
    <3>1. CallOf(0) = "set" /\ On(0) = 99
      BY <2>7, DeathCode DEF CallOf, On, Op
    <3>2. Set(0)
      BY <1>3, <3>1, StepIsCall DEF Step
    <3>3. /\ pc' = [pc EXCEPT ![0] = 6] /\ value' = 99
          /\ UNCHANGED <<program, killed, owner, dead_owner>>
      BY <2>7, <3>1, <3>2 DEF Set, Return, GoOn, Only
    <3> QED
      BY <2>7, <3>3 DEF DeathInv, Locked, Ended
  <2>8. CASE pc[0] = 6
    <3>1. CallOf(0) = "unlock" /\ On(0) = 1
      BY <2>8, DeathCode DEF CallOf, On, Op
    <3>2. Unlock(0)
      BY <1>3, <3>1, StepIsCall DEF Step
    <3>3. ~dead_owner
      BY <2>8 DEF DeathInv
    <3>4. /\ pc' = [pc EXCEPT ![0] = 7] /\ owner' = [owner EXCEPT ![1] = Nobody]
          /\ UNCHANGED <<program, killed, dead_owner, value>>
      <4>1. owner' = [owner EXCEPT ![1] = Nobody]
        BY <3>1, <3>2, <3>3 DEF Unlock
      <4>2. Return(0) /\ UNCHANGED <<program, killed, dead_owner, value>>
        BY <3>2 DEF Unlock, Only
      <4> QED
        BY <2>8, <4>1, <4>2 DEF Return, GoOn
    <3> QED
      BY <2>8, <3>4 DEF DeathInv, Locked, Ended, Nobody
  <2> QED
    BY <2>2, <2>3, <2>4, <2>5, <2>6, <2>7, <2>8
<1> QED
  BY <1>2, <1>3

\* The child is killed.
LEMMA DeathKillOK ==
  ASSUME program = "mutex_death", DeathInv, Kill(1)
  PROVE  DeathInv'
PROOF
<1>1. UNCHANGED <<program, pc, data>> /\ killed' \subseteq {1} /\ killed \subseteq killed'
  BY DEF Kill, DeathInv
<1>2. Ended(1) => Ended(1)'
  BY <1>1 DEF Ended
<1> QED
  BY <1>1, <1>2 DEF DeathInv, Locked, data

\* mutex_death.c starts in its invariant.
LEMMA DeathInit ==
  ASSUME Init, program = "mutex_death"
  PROVE  DeathInv
PROOF
<1>1. pc \in [{0, 1} -> Nat] /\ pc[0] = 1 /\ pc[1] = 0
  BY DeathCode DEF Init, Main
<1>2. owner \in [{1, 2} -> Int] /\ owner[1] = Nobody
  BY DEF Init, Nobody
<1>3. dead_owner = FALSE /\ value = 0 /\ killed = {}
  BY DEF Init
<1>4. dead_owner \in BOOLEAN /\ ~dead_owner
  BY <1>3
<1> QED
  BY <1>1, <1>2, <1>3, <1>4 DEF DeathInv, Locked, Main

-------------------------------------------------------------------------------
(* All programs                                                            *)

\* Every program starts in its invariant,
LEMMA InitOK == Init => Inv
  BY CountingInit, SemaphoreInit, LivelockInit, DeathInit DEF Init, Inv

\* and every step keeps it.
LEMMA StepOK == Inv /\ [Next]_vars => Inv'
PROOF
<1> SUFFICES ASSUME Inv, [Next]_vars
             PROVE  Inv'
  OBVIOUS
<1>1. CASE Next
  <2>1. PICK t \in Ids : Step(t) \/ (t # Main /\ Kill(t))
    BY <1>1 DEF Next
  <2>2. program' = program
    BY <2>1 DEF Step, Create, Join, Reap, Lock, Unlock, Recover, Load, Store, Set, Talk, Post,
       Wait, Raise, Look, Lower, Only, Kill
  <2>3. Counts => CountInv'
    <3> SUFFICES ASSUME Counts
                 PROVE  CountInv'
      OBVIOUS
    <3>1. CountInv /\ Ids = 0 .. Size /\ Size \in Nat
      BY CountingCode DEF Inv
    <3>2. t = Main \/ t \in 1 .. Size
      BY <2>1, <3>1 DEF Main
    <3> QED
      BY <2>1, <3>1, <3>2, CountingMainOK, CountingThreadOK, CountingKillOK
  <2>4. program = "semaphore" => SemaphoreInv'
    <3> SUFFICES ASSUME program = "semaphore"
                 PROVE  SemaphoreInv'
      OBVIOUS
    <3>1. SemaphoreInv /\ (t = Main \/ t \in {1, 2})
      BY <2>1, SemaphoreCode DEF Inv, Main
    <3>2. ~Kill(t)
      BY DEF Kill, Processes
    <3> QED
      BY <2>1, <3>1, <3>2, SemaphoreMainOK, SemaphoreThreadOK
  <2>5. program = "livelock" => LivelockInv'
    <3> SUFFICES ASSUME program = "livelock"
                 PROVE  LivelockInv'
      OBVIOUS
    <3>1. LivelockInv /\ t \in {0, 1, 2}
      BY <2>1, LivelockCode DEF Inv
    <3>2. ~Kill(t)
      BY DEF Kill, Processes
    <3> QED
      BY <2>1, <3>1, <3>2, LivelockStepOK
  <2>6. program = "mutex_death" => DeathInv'
    <3> SUFFICES ASSUME program = "mutex_death"
                 PROVE  DeathInv'
      OBVIOUS
    <3>1. DeathInv /\ t \in {0, 1}
      BY <2>1, DeathCode DEF Inv
    <3>2. CASE Step(t)
      BY <3>1, <3>2, DeathStepOK
    <3>3. CASE t # Main /\ Kill(t)
      <4>1. Kill(1)
        BY <3>1, <3>3 DEF Main
      <4> QED
        BY <3>1, <4>1, DeathKillOK
    <3> QED
      BY <2>1, <3>2, <3>3
  <2> QED
    BY <2>2, <2>3, <2>4, <2>5, <2>6 DEF Inv, Counts
<1>2. CASE UNCHANGED vars
  <2>1. \A t : /\ \A call : Made(t, call)' = Made(t, call) /\ Calling(t, call)' = Calling(t, call)
               /\ Phase(t)' = Phase(t) /\ Midway(t)' = Midway(t) /\ (Ended(t) <=> Ended(t)')
    BY <1>2 DEF vars, Made, Calling, Phase, Midway, Ended
  <2>2. Size' = Size /\ Others' = Others /\ (Locked <=> Locked') /\ (Counts <=> Counts')
    BY <1>2 DEF vars, Size, Others, Ids, Locked, Counts
  <2>3. Stores' = Stores
    BY <1>2, <2>1, SameStores DEF vars
  <2>4. CountInv => CountInv'
    BY <1>2, <2>1, <2>2, <2>3 DEF vars, data, CountInv, CountTypeOK, Unborn, Holding, Fresh, Counted
  <2>5. PairInv => PairInv'
    BY <1>2 DEF vars, PairInv
  <2>6. SemaphoreInv => SemaphoreInv'
    BY <1>2, <2>1, <2>5 DEF vars, data, SemaphoreInv
  <2>7. LivelockInv => LivelockInv'
    BY <1>2, <2>5 DEF vars, data, LivelockInv
  <2>8. DeathInv => DeathInv'
    BY <1>2, <2>1, <2>2 DEF vars, data, DeathInv
  <2> QED
    BY <1>2, <2>2, <2>4, <2>6, <2>7, <2>8 DEF vars, Inv
<1> QED
  BY <1>1, <1>2

\* The invariant holds of every run.
THEOREM SynchronisationInvariant == Spec => []Inv
  BY InitOK, StepOK, PTL DEF Spec

\* However many threads or processes increment, however often, and whoever is
\* killed and wherever: no increment is lost or made twice.
THEOREM NoIncrementLost == Spec => []CountsExactly
PROOF
<1>1. Inv => CountsExactly
  BY DEF Inv, Counts, CountsExactly, CountInv, Counted, Stores
<1> QED
  BY <1>1, SynchronisationInvariant, PTL

\* For any number of items the reader consumes only what was produced; and the
\* threads of livelock.c are never at work at once.
THEOREM NothingTooEarly == Spec => []NoneTooEarly
PROOF
<1>1. ASSUME Inv, program = "semaphore"
      PROVE  Cardinality(Made(2, "consume")) <= Cardinality(Made(1, "produce"))
  <2>1. \A t \in {1, 2} : Midway(t) \in {0, 1}
    <3>1. \A t \in {1, 2} : pc[t] \in Nat
      BY <1>1 DEF Inv, SemaphoreInv, PairInv
    <3> QED
      BY <3>1 DEF Midway
  <2> QED
    BY <1>1, <2>1 DEF Inv, SemaphoreInv, Calling
<1>2. ASSUME Inv, program = "livelock"
      PROVE  ~(Calls(1, "work") /\ Calls(2, "work"))
  <2>1. ASSUME NEW t \in {1, 2}, Calls(t, "work")
        PROVE  pc[t] = 3
    <3>1. Code[program][t] = Polite /\ Len(Polite) = 4
      BY <1>2, LivelockCode DEF Polite
    <3>2. pc[t] \in 1 .. 4
      BY <1>2, <2>1, <3>1 DEF Calls, Running, Ended, Inv, LivelockInv
    <3> QED
      BY <2>1, <3>1, <3>2 DEF Calls, Polite, Op
  <2> QED
    BY <1>2, <2>1 DEF Inv, LivelockInv
<1>3. Inv => NoneTooEarly
  BY <1>1, <1>2 DEF NoneTooEarly
<1> QED
  BY <1>3, SynchronisationInvariant, PTL

\* However many processes may be killed, the parent of mutex_death.c repairs the
\* value exactly if its child ended with the mutex in its hands.
THEOREM DeathIsAlwaysNoticed == Spec => []DeathIsNoticed
PROOF
<1>1. ASSUME Inv, program = "mutex_death", Ended(Main)
      PROVE  /\ value = IF Made(1, "lock") # {} THEN 99 ELSE 0
             /\ owner[1] = Nobody
  <2>1. Len(Code[program][Main]) = 6 /\ Main \notin killed
    BY <1>1, DeathCode DEF Inv, DeathInv, Main
  <2>2. pc[Main] = 7
    BY <1>1, <2>1 DEF Ended, Inv, DeathInv
  <2>3. Made(1, "lock") # {} <=> Locked
    <3>1. Code[program][1][1].call = "lock" /\ Code[program][1][2].call = "set"
      BY <1>1, DeathCode DEF Op
    <3>2. pc[1] \in 0 .. 3
      BY <1>1 DEF Inv, DeathInv
    <3>3. Locked => 1 \in Made(1, "lock")
      BY <3>1, <3>2 DEF Locked, Made
    <3>4. ~Locked => Made(1, "lock") = {}
      BY <3>2 DEF Locked, Made
    <3> QED
      BY <3>3, <3>4
  <2> QED
    BY <1>1, <2>2, <2>3 DEF Inv, DeathInv
<1>2. Inv => DeathIsNoticed
  BY <1>1 DEF DeathIsNoticed
<1> QED
  BY <1>2, SynchronisationInvariant, PTL

===============================================================================
