--------------------------- MODULE ThreadPool_proofs ---------------------------
(***************************************************************************)
(* Proofs about the thread pool, for every number of threads, slots, tasks *)
(* and spurious wakeups: its invariants, that it implements TaskPool, and   *)
(* what follows from that for each task.                                    *)
(***************************************************************************)
EXTENDS ThreadPool, SequenceTheorems, FiniteSetTheorems, TLAPS

-------------------------------------------------------------------------------
(* Ring arithmetic.                                                        *)

\* A slot number below the size is its own remainder.
LEMMA ModSmall ==
  ASSUME NEW M \in Nat \ {0}, NEW a \in 0 .. M - 1
  PROVE  a % M = a
OBVIOUS

\* One wrap around the ring subtracts its size.
LEMMA ModWrap ==
  ASSUME NEW M \in Nat \ {0}, NEW a \in M .. 2 * M - 1
  PROVE  a % M = a - M
OBVIOUS

\* The successor of a slot is a slot: front and rear never leave the array.
LEMMA SuccSlot ==
  ASSUME NEW s \in Slots
  PROVE  Succ(s) = (IF s + 1 = MaxQueueSize THEN 0 ELSE s + 1) /\ Succ(s) \in Slots
<1>1. CASE s + 1 < MaxQueueSize
  <2>1. (s + 1) % MaxQueueSize = s + 1
    BY <1>1, ThreadPoolAssumption, ModSmall DEF Slots
  <2> QED BY <2>1, <1>1, ThreadPoolAssumption DEF Succ, Slots
<1>2. CASE s + 1 = MaxQueueSize
  <2>1. MaxQueueSize % MaxQueueSize = MaxQueueSize - MaxQueueSize
    BY ThreadPoolAssumption, ModWrap
  <2> QED BY <2>1, <1>2, ThreadPoolAssumption DEF Succ, Slots
<1> QED BY <1>1, <1>2, ThreadPoolAssumption DEF Slots

\* The slot at distance k from a slot f, without the remainder.
LEMMA Around ==
  ASSUME NEW f \in Slots, NEW k \in 0 .. MaxQueueSize
  PROVE  (f + k) % MaxQueueSize =
           IF f + k < MaxQueueSize THEN f + k ELSE f + k - MaxQueueSize
<1>1. CASE f + k < MaxQueueSize
  <2>1. (f + k) % MaxQueueSize = f + k
    BY <1>1, ThreadPoolAssumption, ModSmall DEF Slots
  <2> QED BY <2>1, <1>1
<1>2. CASE f + k >= MaxQueueSize
  <2>1. (f + k) % MaxQueueSize = f + k - MaxQueueSize
    BY <1>2, ThreadPoolAssumption, ModWrap DEF Slots
  <2> QED BY <2>1, <1>2, ThreadPoolAssumption DEF Slots
<1> QED BY <1>1, <1>2, ThreadPoolAssumption DEF Slots

\* The slot at distance k from front is a slot.
LEMMA SlotAtValue ==
  ASSUME front \in Slots, NEW k \in 0 .. MaxQueueSize
  PROVE  SlotAt(k) = (IF front + k < MaxQueueSize THEN front + k
                      ELSE front + k - MaxQueueSize)
         /\ SlotAt(k) \in Slots
<1>1. SlotAt(k) = IF front + k < MaxQueueSize THEN front + k
                  ELSE front + k - MaxQueueSize
  BY Around, Zenon DEF SlotAt
<1> QED BY <1>1, ThreadPoolAssumption DEF Slots

\* Taking a task: front moves on, count falls, rear is where it was.
LEMMA PopRear ==
  ASSUME front \in Slots, count \in 0 .. MaxQueueSize, count # 0,
         front' = Succ(front), count' = count - 1
  PROVE  SlotAt(count)' = SlotAt(count)
<1>1. front' = (IF front + 1 = MaxQueueSize THEN 0 ELSE front + 1) /\ front' \in Slots
  BY SuccSlot
<1>2. SlotAt(count) = (IF front + count < MaxQueueSize THEN front + count
                       ELSE front + count - MaxQueueSize)
  BY SlotAtValue
<1>3. count' \in 0 .. MaxQueueSize
  BY ThreadPoolAssumption
<1>5. (front' + count') % MaxQueueSize =
        (IF front' + count' < MaxQueueSize THEN front' + count'
         ELSE front' + count' - MaxQueueSize)
  BY <1>1, <1>3, Around, Zenon
<1> QED BY <1>1, <1>2, <1>5, ThreadPoolAssumption DEF SlotAt, Slots

\* Adding a task moves rear to the slot after the last occupied one.
LEMMA PushRear ==
  ASSUME front \in Slots, rear = SlotAt(count), count \in 0 .. MaxQueueSize,
         count # MaxQueueSize, front' = front, rear' = Succ(rear), count' = count + 1
  PROVE  rear' = SlotAt(count)'
<1>1. SlotAt(count) = (IF front + count < MaxQueueSize THEN front + count
                       ELSE front + count - MaxQueueSize)
      /\ rear \in Slots
  BY SlotAtValue
<1>2. rear' = (IF rear + 1 = MaxQueueSize THEN 0 ELSE rear + 1)
  BY <1>1, SuccSlot
<1>3. count + 1 \in 0 .. MaxQueueSize
  BY ThreadPoolAssumption
<1>4. (front + (count + 1)) % MaxQueueSize =
        (IF front + (count + 1) < MaxQueueSize THEN front + (count + 1)
         ELSE front + (count + 1) - MaxQueueSize)
  BY <1>3, Around, Zenon
<1> QED BY <1>1, <1>2, <1>4, ThreadPoolAssumption DEF SlotAt, Slots

-------------------------------------------------------------------------------
(* The invariant.                                                          *)

\* main starts with an empty ring, a free lock and no worker.
LEMMA InitIInv == Init => IInv
<1> SUFFICES ASSUME Init PROVE IInv
  OBVIOUS
<1>1. TypeOK
  <2>1. queue \in [Slots -> Tasks \cup {NoTask}] /\ task \in [Workers -> Tasks \cup {NoTask}]
    BY DEF Init
  <2>2. front \in Slots /\ rear \in Slots /\ count \in 0 .. MaxQueueSize
        /\ i \in Nat /\ spurious \in 0 .. MaxSpurious
    BY ThreadPoolAssumption DEF Init, Slots
  <2>3. lock \in Workers \cup {Main, Nobody} /\ waiters \in SUBSET Workers
        /\ wpc \in [Workers -> WorkerPc] /\ mpc \in MainPc
    BY DEF Init, WorkerPc, MainPc
  <2>4. stop \in BOOLEAN /\ arg \in [Tasks -> {"none", "allocated", "freed"}] /\ rejected \in SUBSET Tasks
    BY DEF Init
  <2> QED BY <2>1, <2>2, <2>3, <2>4 DEF TypeOK
<1>a. LockInv /\ LoopInv /\ RingInv /\ WaitInv /\ StopInv /\ StopReachesSleepers
  BY ThreadPoolAssumption
  DEF Init, LockInv, LoopInv, RingInv, WaitInv, StopInv,
      StopReachesSleepers, InWorkerSection, InMainSection, Workers, Main, Nobody,
      Slots, Tasks, NoTask, WorkerPc, MainPc
<1>2. front + count \in 0 .. MaxQueueSize - 1
  BY ThreadPoolAssumption DEF Init
<1>3. (front + count) % MaxQueueSize = front + count
  BY <1>2, ThreadPoolAssumption, ModSmall
<1>4. RearInv
  BY <1>3 DEF Init, RearInv, SlotAt
<1> QED BY <1>1, <1>a, <1>4 DEF IInv

\* Every call of every thread preserves the invariant.
LEMMA NextIInv == IInv /\ [Next]_vars => IInv'
<1> SUFFICES ASSUME IInv, [Next]_vars PROVE IInv'
  OBVIOUS
<1> USE ThreadPoolAssumption DEF IInv, Workers, Main, Nobody, WGoto, MGoto, ring
<1>1. ASSUME NEW w \in Workers, WLock(w) PROVE IInv'
  <2>1. TypeOK'
    BY <1>1 DEF WLock, Acquire, TypeOK, LoopInv, RingInv, Tasks, WorkerPc, MainPc
  <2>2. LockInv' /\ WaitInv'
    BY <1>1 DEF WLock, Acquire, TypeOK, LockInv, LoopInv, WaitInv, InWorkerSection, InMainSection
  <2>3. LoopInv'
    BY <1>1 DEF WLock, Acquire, TypeOK, LoopInv, WaitInv, Tasks
  <2>4. RingInv'
    BY <1>1 DEF WLock, Acquire, TypeOK, RingInv, LockInv, WaitInv, InWorkerSection, InMainSection
  <2>5. StopInv' /\ StopReachesSleepers'
    BY <1>1 DEF WLock, Acquire, StopReachesSleepers, TypeOK, LockInv, LoopInv,
          RingInv, WaitInv, StopInv, InWorkerSection, InMainSection
  <2>6. RearInv'
    BY <1>1 DEF WLock, Acquire, RearInv, SlotAt
  <2> QED BY <2>1, <2>2, <2>3, <2>4, <2>5, <2>6
<1>2. ASSUME NEW w \in Workers, WWait(w) PROVE IInv'
  <2>1. TypeOK'
    BY <1>2 DEF WWait, Release, TypeOK, LoopInv, RingInv, Tasks, WorkerPc, MainPc
  <2>2. LockInv' /\ WaitInv'
    BY <1>2 DEF WWait, Release, TypeOK, LockInv, LoopInv, WaitInv, InWorkerSection, InMainSection
  <2>3. LoopInv'
    BY <1>2 DEF WWait, Release, TypeOK, LoopInv, WaitInv, Tasks
  <2>4. RingInv'
    BY <1>2 DEF WWait, Release, TypeOK, RingInv, LockInv, WaitInv, InWorkerSection, InMainSection
  <2>5. StopInv' /\ StopReachesSleepers'
    BY <1>2 DEF WWait, Release, StopReachesSleepers, TypeOK, LockInv, LoopInv,
          RingInv, WaitInv, StopInv, InWorkerSection, InMainSection
  <2>6. RearInv'
    BY <1>2 DEF WWait, Release, RearInv, SlotAt
  <2> QED BY <2>1, <2>2, <2>3, <2>4, <2>5, <2>6
<1>3. ASSUME NEW w \in Workers, WRelock(w) PROVE IInv'
  <2>1. TypeOK'
    BY <1>3 DEF WRelock, Acquire, TypeOK, LoopInv, RingInv, Tasks, WorkerPc, MainPc
  <2>2. LockInv' /\ WaitInv'
    BY <1>3 DEF WRelock, Acquire, TypeOK, LockInv, LoopInv, WaitInv, InWorkerSection, InMainSection
  <2>3. LoopInv'
    BY <1>3 DEF WRelock, Acquire, TypeOK, LoopInv, WaitInv, Tasks
  <2>4. RingInv'
    BY <1>3 DEF WRelock, Acquire, TypeOK, RingInv, LockInv, WaitInv, InWorkerSection, InMainSection
  <2>5. StopInv' /\ StopReachesSleepers'
    BY <1>3 DEF WRelock, Acquire, StopReachesSleepers, TypeOK, LockInv, LoopInv,
          RingInv, WaitInv, StopInv, InWorkerSection, InMainSection
  <2>6. RearInv'
    BY <1>3 DEF WRelock, Acquire, RearInv, SlotAt
  <2> QED BY <2>1, <2>2, <2>3, <2>4, <2>5, <2>6
<1>4. ASSUME NEW w \in Workers, WTest(w) PROVE IInv'
  <2>1. TypeOK'
    BY <1>4 DEF WTest, TypeOK, LoopInv, RingInv, Tasks, WorkerPc, MainPc
  <2>2. LockInv' /\ WaitInv'
    BY <1>4 DEF WTest, TypeOK, LockInv, LoopInv, WaitInv, InWorkerSection, InMainSection
  <2>3. LoopInv'
    BY <1>4 DEF WTest, TypeOK, LoopInv, WaitInv, Tasks
  <2>4. RingInv'
    BY <1>4 DEF WTest, TypeOK, RingInv, LockInv, WaitInv, InWorkerSection, InMainSection
  <2>5. StopInv' /\ StopReachesSleepers'
    BY <1>4 DEF WTest, StopReachesSleepers, TypeOK, LockInv, LoopInv,
          RingInv, WaitInv, StopInv, InWorkerSection, InMainSection
  <2>6. RearInv'
    BY <1>4 DEF WTest, RearInv, SlotAt
  <2> QED BY <2>1, <2>2, <2>3, <2>4, <2>5, <2>6
<1>5. ASSUME NEW w \in Workers, WTake(w) PROVE IInv'
  <2>1. TypeOK'
    BY <1>5 DEF WTake, TypeOK, LoopInv, RingInv, Tasks, WorkerPc, MainPc
  <2>2. LockInv' /\ WaitInv'
    BY <1>5 DEF WTake, TypeOK, LockInv, LoopInv, WaitInv, InWorkerSection, InMainSection
  <2>3. LoopInv'
    BY <1>5 DEF WTake, TypeOK, LoopInv, WaitInv, Tasks
  <2>4. RingInv'
    BY <1>5 DEF WTake, TypeOK, RingInv, LockInv, WaitInv, InWorkerSection, InMainSection
  <2>5. StopInv' /\ StopReachesSleepers'
    BY <1>5 DEF WTake, StopReachesSleepers, TypeOK, LockInv, LoopInv,
          RingInv, WaitInv, StopInv, InWorkerSection, InMainSection
  <2>6. RearInv'
    BY <1>5 DEF WTake, RearInv, SlotAt
  <2> QED BY <2>1, <2>2, <2>3, <2>4, <2>5, <2>6
<1>6. ASSUME NEW w \in Workers, WPop(w) PROVE IInv'
  <2>a. Succ(front) \in Slots
    BY SuccSlot DEF TypeOK
  <2>1. TypeOK'
    BY <1>6, <2>a DEF WPop, TypeOK, RingInv, WorkerPc
  <2>2. LockInv' /\ WaitInv'
    BY <1>6 DEF WPop, TypeOK, LockInv, LoopInv, WaitInv, InWorkerSection, InMainSection
  <2>3. LoopInv'
    BY <1>6 DEF WPop, TypeOK, LoopInv, WaitInv, Tasks
  <2>4. RingInv'
    BY <1>6 DEF WPop, TypeOK, RingInv, LockInv, WaitInv, InWorkerSection, InMainSection
  <2>5. StopInv' /\ StopReachesSleepers'
    BY <1>6 DEF WPop, StopReachesSleepers, TypeOK, LockInv, LoopInv,
          RingInv, WaitInv, StopInv, InWorkerSection, InMainSection
  <2>6. RearInv'
    BY <1>6, PopRear DEF WPop, RearInv, TypeOK, RingInv
  <2> QED BY <2>1, <2>2, <2>3, <2>4, <2>5, <2>6
<1>7. ASSUME NEW w \in Workers, WUnlock(w) PROVE IInv'
  <2>1. TypeOK'
    BY <1>7 DEF WUnlock, Release, TypeOK, LoopInv, RingInv, Tasks, WorkerPc, MainPc
  <2>2. LockInv' /\ WaitInv'
    BY <1>7 DEF WUnlock, Release, TypeOK, LockInv, LoopInv, WaitInv, InWorkerSection, InMainSection
  <2>3. LoopInv'
    BY <1>7 DEF WUnlock, Release, TypeOK, LoopInv, WaitInv, Tasks
  <2>4. RingInv'
    BY <1>7 DEF WUnlock, Release, TypeOK, RingInv, LockInv, WaitInv, InWorkerSection, InMainSection
  <2>5. StopInv' /\ StopReachesSleepers'
    BY <1>7 DEF WUnlock, Release, StopReachesSleepers, TypeOK, LockInv, LoopInv,
          RingInv, WaitInv, StopInv, InWorkerSection, InMainSection
  <2>6. RearInv'
    BY <1>7 DEF WUnlock, Release, RearInv, SlotAt
  <2> QED BY <2>1, <2>2, <2>3, <2>4, <2>5, <2>6
<1>8. ASSUME NEW w \in Workers, WRun(w) PROVE IInv'
  <2>1. TypeOK'
    BY <1>8 DEF WRun, TypeOK, LoopInv, RingInv, Tasks, WorkerPc, MainPc
  <2>2. LockInv' /\ WaitInv'
    BY <1>8 DEF WRun, TypeOK, LockInv, LoopInv, WaitInv, InWorkerSection, InMainSection
  <2>3. LoopInv'
    BY <1>8 DEF WRun, TypeOK, LoopInv, WaitInv, Tasks
  <2>4. RingInv'
    BY <1>8 DEF WRun, TypeOK, RingInv, LockInv, WaitInv, InWorkerSection, InMainSection
  <2>5. StopInv' /\ StopReachesSleepers'
    BY <1>8 DEF WRun, StopReachesSleepers, TypeOK, LockInv, LoopInv,
          RingInv, WaitInv, StopInv, InWorkerSection, InMainSection
  <2>6. RearInv'
    BY <1>8 DEF WRun, RearInv, SlotAt
  <2> QED BY <2>1, <2>2, <2>3, <2>4, <2>5, <2>6
<1>9. ASSUME NEW w \in Workers, WExit(w) PROVE IInv'
  <2>1. TypeOK'
    BY <1>9 DEF WExit, Release, TypeOK, LoopInv, RingInv, Tasks, WorkerPc, MainPc
  <2>2. LockInv' /\ WaitInv'
    BY <1>9 DEF WExit, Release, TypeOK, LockInv, LoopInv, WaitInv, InWorkerSection, InMainSection
  <2>3. LoopInv'
    BY <1>9 DEF WExit, Release, TypeOK, LoopInv, WaitInv, Tasks
  <2>4. RingInv'
    BY <1>9 DEF WExit, Release, TypeOK, RingInv, LockInv, WaitInv, InWorkerSection, InMainSection
  <2>5. StopInv' /\ StopReachesSleepers'
    BY <1>9 DEF WExit, Release, StopReachesSleepers, TypeOK, LockInv, LoopInv,
          RingInv, WaitInv, StopInv, InWorkerSection, InMainSection
  <2>6. RearInv'
    BY <1>9 DEF WExit, Release, RearInv, SlotAt
  <2> QED BY <2>1, <2>2, <2>3, <2>4, <2>5, <2>6
<1>10. ASSUME NEW w \in Workers, SpuriousWakeup(w) PROVE IInv'
  <2>1. TypeOK'
    BY <1>10 DEF SpuriousWakeup, Wake, TypeOK, LoopInv, RingInv, Tasks, WorkerPc, MainPc
  <2>2. LockInv' /\ WaitInv'
    BY <1>10 DEF SpuriousWakeup, Wake, TypeOK, LockInv, LoopInv, WaitInv, InWorkerSection, InMainSection
  <2>3. LoopInv'
    BY <1>10 DEF SpuriousWakeup, Wake, TypeOK, LoopInv, WaitInv, Tasks
  <2>4. RingInv'
    BY <1>10 DEF SpuriousWakeup, Wake, TypeOK, RingInv, LockInv, WaitInv, InWorkerSection, InMainSection
  <2>5. StopInv' /\ StopReachesSleepers'
    BY <1>10 DEF SpuriousWakeup, Wake, StopReachesSleepers, TypeOK, LockInv, LoopInv,
          RingInv, WaitInv, StopInv, InWorkerSection, InMainSection
  <2>6. RearInv'
    BY <1>10 DEF SpuriousWakeup, Wake, RearInv, SlotAt
  <2> QED BY <2>1, <2>2, <2>3, <2>4, <2>5, <2>6
<1>11. ASSUME CreateWorker PROVE IInv'
  <2>1. TypeOK'
    BY <1>11 DEF CreateWorker, TypeOK, LoopInv, RingInv, Tasks, WorkerPc, MainPc
  <2>2. LockInv' /\ WaitInv'
    BY <1>11 DEF CreateWorker, TypeOK, LockInv, LoopInv, WaitInv, InWorkerSection, InMainSection
  <2>3. LoopInv'
    BY <1>11 DEF CreateWorker, TypeOK, LoopInv, WaitInv, Tasks
  <2>4. RingInv'
    BY <1>11 DEF CreateWorker, TypeOK, RingInv, LockInv, WaitInv, InWorkerSection, InMainSection
  <2>5. StopInv' /\ StopReachesSleepers'
    BY <1>11 DEF CreateWorker, StopReachesSleepers, TypeOK, LockInv, LoopInv,
          RingInv, WaitInv, StopInv, InWorkerSection, InMainSection
  <2>6. RearInv'
    BY <1>11 DEF CreateWorker, RearInv, SlotAt
  <2> QED BY <2>1, <2>2, <2>3, <2>4, <2>5, <2>6
<1>12. ASSUME MallocArg PROVE IInv'
  <2>1. TypeOK'
    BY <1>12 DEF MallocArg, TypeOK, LoopInv, RingInv, Tasks, WorkerPc, MainPc
  <2>2. LockInv' /\ WaitInv'
    BY <1>12 DEF MallocArg, TypeOK, LockInv, LoopInv, WaitInv, InWorkerSection, InMainSection
  <2>3. LoopInv'
    BY <1>12 DEF MallocArg, TypeOK, LoopInv, WaitInv, Tasks
  <2>4. RingInv'
    BY <1>12 DEF MallocArg, TypeOK, RingInv, LockInv, WaitInv, InWorkerSection, InMainSection
  <2>5. StopInv' /\ StopReachesSleepers'
    BY <1>12 DEF MallocArg, StopReachesSleepers, TypeOK, LockInv, LoopInv,
          RingInv, WaitInv, StopInv, InWorkerSection, InMainSection
  <2>6. RearInv'
    BY <1>12 DEF MallocArg, RearInv, SlotAt
  <2> QED BY <2>1, <2>2, <2>3, <2>4, <2>5, <2>6
<1>13. ASSUME AddLock PROVE IInv'
  <2>1. TypeOK'
    BY <1>13 DEF AddLock, Acquire, TypeOK, LoopInv, RingInv, Tasks, WorkerPc, MainPc
  <2>2. LockInv' /\ WaitInv'
    BY <1>13 DEF AddLock, Acquire, TypeOK, LockInv, LoopInv, WaitInv, InWorkerSection, InMainSection
  <2>3. LoopInv'
    BY <1>13 DEF AddLock, Acquire, TypeOK, LoopInv, WaitInv, Tasks
  <2>4. RingInv'
    BY <1>13 DEF AddLock, Acquire, TypeOK, RingInv, LockInv, WaitInv, InWorkerSection, InMainSection
  <2>5. StopInv' /\ StopReachesSleepers'
    BY <1>13 DEF AddLock, Acquire, StopReachesSleepers, TypeOK, LockInv, LoopInv,
          RingInv, WaitInv, StopInv, InWorkerSection, InMainSection
  <2>6. RearInv'
    BY <1>13 DEF AddLock, Acquire, RearInv, SlotAt
  <2> QED BY <2>1, <2>2, <2>3, <2>4, <2>5, <2>6
<1>14. ASSUME AddFull PROVE IInv'
  <2>1. TypeOK'
    BY <1>14 DEF AddFull, QueueFull, TypeOK, LoopInv, RingInv, Tasks, WorkerPc, MainPc
  <2>2. LockInv' /\ WaitInv'
    BY <1>14 DEF AddFull, QueueFull, TypeOK, LockInv, LoopInv, WaitInv, InWorkerSection, InMainSection
  <2>3. LoopInv'
    BY <1>14 DEF AddFull, QueueFull, TypeOK, LoopInv, WaitInv, Tasks
  <2>4. RingInv'
    BY <1>14 DEF AddFull, QueueFull, TypeOK, RingInv, LockInv, WaitInv, InWorkerSection, InMainSection
  <2>5. StopInv' /\ StopReachesSleepers'
    BY <1>14 DEF AddFull, QueueFull, StopReachesSleepers, TypeOK, LockInv, LoopInv,
          RingInv, WaitInv, StopInv, InWorkerSection, InMainSection
  <2>6. RearInv'
    BY <1>14 DEF AddFull, QueueFull, RearInv, SlotAt
  <2> QED BY <2>1, <2>2, <2>3, <2>4, <2>5, <2>6
<1>15. ASSUME AddCheck PROVE IInv'
  <2>1. TypeOK'
    BY <1>15 DEF AddCheck, QueueFull, TypeOK, LoopInv, RingInv, Tasks, WorkerPc, MainPc
  <2>2. LockInv' /\ WaitInv'
    BY <1>15 DEF AddCheck, QueueFull, TypeOK, LockInv, LoopInv, WaitInv, InWorkerSection, InMainSection
  <2>3. LoopInv'
    BY <1>15 DEF AddCheck, QueueFull, TypeOK, LoopInv, WaitInv, Tasks
  <2>4. RingInv'
    BY <1>15 DEF AddCheck, QueueFull, TypeOK, RingInv, LockInv, WaitInv, InWorkerSection, InMainSection
  <2>5. StopInv' /\ StopReachesSleepers'
    BY <1>15 DEF AddCheck, QueueFull, StopReachesSleepers, TypeOK, LockInv, LoopInv,
          RingInv, WaitInv, StopInv, InWorkerSection, InMainSection
  <2>6. RearInv'
    BY <1>15 DEF AddCheck, QueueFull, RearInv, SlotAt
  <2> QED BY <2>1, <2>2, <2>3, <2>4, <2>5, <2>6
<1>16. ASSUME AddWrite PROVE IInv'
  <2>1. TypeOK'
    BY <1>16 DEF AddWrite, TypeOK, LoopInv, RingInv, Tasks, WorkerPc, MainPc
  <2>2. LockInv' /\ WaitInv'
    BY <1>16 DEF AddWrite, TypeOK, LockInv, LoopInv, WaitInv, InWorkerSection, InMainSection
  <2>3. LoopInv'
    BY <1>16 DEF AddWrite, TypeOK, LoopInv, WaitInv, Tasks
  <2>4. RingInv'
    BY <1>16 DEF AddWrite, TypeOK, RingInv, LockInv, WaitInv, InWorkerSection, InMainSection
  <2>5. StopInv' /\ StopReachesSleepers'
    BY <1>16 DEF AddWrite, StopReachesSleepers, TypeOK, LockInv, LoopInv,
          RingInv, WaitInv, StopInv, InWorkerSection, InMainSection
  <2>6. RearInv'
    BY <1>16 DEF AddWrite, RearInv, SlotAt
  <2> QED BY <2>1, <2>2, <2>3, <2>4, <2>5, <2>6
<1>17. ASSUME AddPush PROVE IInv'
  <2>a. Succ(rear) \in Slots
    BY SuccSlot DEF TypeOK
  <2>1. TypeOK'
    BY <1>17, <2>a DEF AddPush, TypeOK, RingInv, MainPc
  <2>2. LockInv' /\ WaitInv'
    BY <1>17 DEF AddPush, TypeOK, LockInv, LoopInv, WaitInv, InWorkerSection, InMainSection
  <2>3. LoopInv'
    BY <1>17 DEF AddPush, TypeOK, LoopInv, WaitInv, Tasks
  <2>4. RingInv'
    BY <1>17 DEF AddPush, TypeOK, RingInv, LockInv, WaitInv, InWorkerSection, InMainSection
  <2>5. StopInv' /\ StopReachesSleepers'
    BY <1>17 DEF AddPush, StopReachesSleepers, TypeOK, LockInv, LoopInv,
          RingInv, WaitInv, StopInv, InWorkerSection, InMainSection
  <2>6. RearInv'
    BY <1>17, PushRear DEF AddPush, RearInv, TypeOK, RingInv
  <2> QED BY <2>1, <2>2, <2>3, <2>4, <2>5, <2>6
<1>18. ASSUME AddSignal PROVE IInv'
  <2>a. wpc' \in [Workers -> WorkerPc] /\ waiters' \in SUBSET Workers
    BY <1>18, ZenonT(60) DEF AddSignal, Wake, TypeOK, WorkerPc
  <2>1. TypeOK'
    BY <1>18, <2>a DEF AddSignal, TypeOK, LoopInv, Tasks, MainPc
  <2>2. LockInv' /\ WaitInv'
    BY <1>18 DEF AddSignal, Wake, TypeOK, LockInv, LoopInv, WaitInv, InWorkerSection, InMainSection
  <2>3. LoopInv'
    BY <1>18 DEF AddSignal, Wake, TypeOK, LoopInv, WaitInv, Tasks
  <2>4. RingInv'
    BY <1>18 DEF AddSignal, Wake, TypeOK, RingInv, LockInv, WaitInv, InWorkerSection, InMainSection
  <2>5. StopInv' /\ StopReachesSleepers'
    BY <1>18 DEF AddSignal, Wake, StopReachesSleepers, TypeOK, LockInv, LoopInv,
          RingInv, WaitInv, StopInv, InWorkerSection, InMainSection
  <2>6. RearInv'
    BY <1>18 DEF AddSignal, Wake, RearInv, SlotAt
  <2> QED BY <2>1, <2>2, <2>3, <2>4, <2>5, <2>6
<1>19. ASSUME AddUnlock PROVE IInv'
  <2>1. TypeOK'
    BY <1>19 DEF AddUnlock, Release, TypeOK, LoopInv, RingInv, Tasks, WorkerPc, MainPc
  <2>2. LockInv' /\ WaitInv'
    BY <1>19 DEF AddUnlock, Release, TypeOK, LockInv, LoopInv, WaitInv, InWorkerSection, InMainSection
  <2>3. LoopInv'
    BY <1>19 DEF AddUnlock, Release, TypeOK, LoopInv, WaitInv, Tasks
  <2>4. RingInv'
    BY <1>19 DEF AddUnlock, Release, TypeOK, RingInv, LockInv, WaitInv, InWorkerSection, InMainSection
  <2>5. StopInv' /\ StopReachesSleepers'
    BY <1>19 DEF AddUnlock, Release, StopReachesSleepers, TypeOK, LockInv, LoopInv,
          RingInv, WaitInv, StopInv, InWorkerSection, InMainSection
  <2>6. RearInv'
    BY <1>19 DEF AddUnlock, Release, RearInv, SlotAt
  <2> QED BY <2>1, <2>2, <2>3, <2>4, <2>5, <2>6
<1>20. ASSUME StopLock PROVE IInv'
  <2>1. TypeOK'
    BY <1>20 DEF StopLock, Acquire, TypeOK, LoopInv, RingInv, Tasks, WorkerPc, MainPc
  <2>2. LockInv' /\ WaitInv'
    BY <1>20 DEF StopLock, Acquire, TypeOK, LockInv, LoopInv, WaitInv, InWorkerSection, InMainSection
  <2>3. LoopInv'
    BY <1>20 DEF StopLock, Acquire, TypeOK, LoopInv, WaitInv, Tasks
  <2>4. RingInv'
    BY <1>20 DEF StopLock, Acquire, TypeOK, RingInv, LockInv, WaitInv, InWorkerSection, InMainSection
  <2>5. StopInv' /\ StopReachesSleepers'
    BY <1>20 DEF StopLock, Acquire, StopReachesSleepers, TypeOK, LockInv, LoopInv,
          RingInv, WaitInv, StopInv, InWorkerSection, InMainSection
  <2>6. RearInv'
    BY <1>20 DEF StopLock, Acquire, RearInv, SlotAt
  <2> QED BY <2>1, <2>2, <2>3, <2>4, <2>5, <2>6
<1>21. ASSUME StopSet PROVE IInv'
  <2>1. TypeOK'
    BY <1>21 DEF StopSet, TypeOK, LoopInv, RingInv, Tasks, WorkerPc, MainPc
  <2>2. LockInv' /\ WaitInv'
    BY <1>21 DEF StopSet, TypeOK, LockInv, LoopInv, WaitInv, InWorkerSection, InMainSection
  <2>3. LoopInv'
    BY <1>21 DEF StopSet, TypeOK, LoopInv, WaitInv, Tasks
  <2>4. RingInv'
    BY <1>21 DEF StopSet, TypeOK, RingInv, LockInv, WaitInv, InWorkerSection, InMainSection
  <2>5. StopInv' /\ StopReachesSleepers'
    BY <1>21 DEF StopSet, StopReachesSleepers, TypeOK, LockInv, LoopInv,
          RingInv, WaitInv, StopInv, InWorkerSection, InMainSection
  <2>6. RearInv'
    BY <1>21 DEF StopSet, RearInv, SlotAt
  <2> QED BY <2>1, <2>2, <2>3, <2>4, <2>5, <2>6
<1>22. ASSUME StopBroadcast PROVE IInv'
  <2>1. TypeOK'
    BY <1>22 DEF StopBroadcast, Wake, TypeOK, LoopInv, RingInv, Tasks, WorkerPc, MainPc
  <2>2. LockInv' /\ WaitInv'
    BY <1>22 DEF StopBroadcast, Wake, TypeOK, LockInv, LoopInv, WaitInv, InWorkerSection, InMainSection
  <2>3. LoopInv'
    BY <1>22 DEF StopBroadcast, Wake, TypeOK, LoopInv, WaitInv, Tasks
  <2>4. RingInv'
    BY <1>22 DEF StopBroadcast, Wake, TypeOK, RingInv, LockInv, WaitInv, InWorkerSection, InMainSection
  <2>5. StopInv' /\ StopReachesSleepers'
    BY <1>22 DEF StopBroadcast, Wake, StopReachesSleepers, TypeOK, LockInv, LoopInv,
          RingInv, WaitInv, StopInv, InWorkerSection, InMainSection
  <2>6. RearInv'
    BY <1>22 DEF StopBroadcast, Wake, RearInv, SlotAt
  <2> QED BY <2>1, <2>2, <2>3, <2>4, <2>5, <2>6
<1>23. ASSUME StopUnlock PROVE IInv'
  <2>1. TypeOK'
    BY <1>23 DEF StopUnlock, Release, TypeOK, LoopInv, RingInv, Tasks, WorkerPc, MainPc
  <2>2. LockInv' /\ WaitInv'
    BY <1>23 DEF StopUnlock, Release, TypeOK, LockInv, LoopInv, WaitInv, InWorkerSection, InMainSection
  <2>3. LoopInv'
    BY <1>23 DEF StopUnlock, Release, TypeOK, LoopInv, WaitInv, Tasks
  <2>4. RingInv'
    BY <1>23 DEF StopUnlock, Release, TypeOK, RingInv, LockInv, WaitInv, InWorkerSection, InMainSection
  <2>5. StopInv' /\ StopReachesSleepers'
    BY <1>23 DEF StopUnlock, Release, StopReachesSleepers, TypeOK, LockInv, LoopInv,
          RingInv, WaitInv, StopInv, InWorkerSection, InMainSection
  <2>6. RearInv'
    BY <1>23 DEF StopUnlock, Release, RearInv, SlotAt
  <2> QED BY <2>1, <2>2, <2>3, <2>4, <2>5, <2>6
<1>24. ASSUME Join PROVE IInv'
  <2>1. TypeOK'
    BY <1>24 DEF Join, TypeOK, LoopInv, RingInv, Tasks, WorkerPc, MainPc
  <2>2. LockInv' /\ WaitInv'
    BY <1>24 DEF Join, TypeOK, LockInv, LoopInv, WaitInv, InWorkerSection, InMainSection
  <2>3. LoopInv'
    BY <1>24 DEF Join, TypeOK, LoopInv, WaitInv, Tasks
  <2>4. RingInv'
    BY <1>24 DEF Join, TypeOK, RingInv, LockInv, WaitInv, InWorkerSection, InMainSection
  <2>5. StopInv' /\ StopReachesSleepers'
    BY <1>24 DEF Join, StopReachesSleepers, TypeOK, LockInv, LoopInv,
          RingInv, WaitInv, StopInv, InWorkerSection, InMainSection
  <2>6. RearInv'
    BY <1>24 DEF Join, RearInv, SlotAt
  <2> QED BY <2>1, <2>2, <2>3, <2>4, <2>5, <2>6
<1>25. ASSUME Destroy PROVE IInv'
  <2>1. TypeOK'
    BY <1>25 DEF Destroy, TypeOK, LoopInv, RingInv, Tasks, WorkerPc, MainPc
  <2>2. LockInv' /\ WaitInv'
    BY <1>25 DEF Destroy, TypeOK, LockInv, LoopInv, WaitInv, InWorkerSection, InMainSection
  <2>3. LoopInv'
    BY <1>25 DEF Destroy, TypeOK, LoopInv, WaitInv, Tasks
  <2>4. RingInv'
    BY <1>25 DEF Destroy, TypeOK, RingInv, LockInv, WaitInv, InWorkerSection, InMainSection
  <2>5. StopInv' /\ StopReachesSleepers'
    BY <1>25 DEF Destroy, StopReachesSleepers, TypeOK, LockInv, LoopInv,
          RingInv, WaitInv, StopInv, InWorkerSection, InMainSection
  <2>6. RearInv'
    BY <1>25 DEF Destroy, RearInv, SlotAt
  <2> QED BY <2>1, <2>2, <2>3, <2>4, <2>5, <2>6
<1>26. ASSUME UNCHANGED vars PROVE IInv'
  BY <1>26 DEF vars, TypeOK, LockInv, InWorkerSection, InMainSection, LoopInv,
       RingInv, RearInv, SlotAt, WaitInv, StopInv, StopReachesSleepers
<1> QED
  BY <1>1, <1>2, <1>3, <1>4, <1>5, <1>6, <1>7, <1>8, <1>9, <1>10, <1>11, <1>12, <1>13, <1>14, <1>15, <1>16, <1>17, <1>18, <1>19, <1>20, <1>21, <1>22, <1>23, <1>24, <1>25, <1>26
  DEF Next, Worker, MainThread, Terminated

\* The pool's state stays well typed: front and rear in the array, count
\* between 0 and its size, the lock owned by at most one thread, and main's
\* loop counter a task while main touches that task's argument.
THEOREM TypeCorrect == Spec => []TypeOK
<1>1. IInv => TypeOK
  BY DEF IInv
<1> QED BY InitIInv, NextIInv, <1>1, PTL DEF Spec

\* thread_pool_destroy leaves no worker asleep on has_tasks: the broadcast
\* reaches every sleeper and none falls asleep after it.
THEOREM StopWakesAll == Spec => []StopReachesSleepers
<1>1. IInv => StopReachesSleepers
  BY DEF IInv
<1> QED BY InitIInv, NextIInv, <1>1, PTL DEF Spec

\* The thread array, the lock and the condition are destroyed only after the
\* last worker has returned.
THEOREM DestroyAfterWorkers == Spec => []DestroyIsSafe
<1>1. IInv => DestroyIsSafe
  BY ThreadPoolAssumption
  DEF IInv, DestroyIsSafe, TypeOK, LoopInv, LockInv, WaitInv, InWorkerSection,
      InMainSection, Workers, Main, Nobody
<1> QED BY InitIInv, NextIInv, <1>1, PTL DEF Spec

-------------------------------------------------------------------------------
(* No lost wakeup.                                                         *)

\* The workers on their way to the queue can be counted.
LEMMA ComingFinite ==
  ASSUME NEW S, S \subseteq Workers
  PROVE  IsFiniteSet(S) /\ Cardinality(S) \in Nat
<1>1. IsFiniteSet(0 .. NumThreads - 1)
  BY ThreadPoolAssumption, FS_Interval
<1> QED BY <1>1, FS_Subset, FS_CardinalityType DEF Workers

\* When nobody sleeps, or nothing is queued, there is nobody to wake.
LEMMA NobodyToWakeNext ==
  ASSUME waiters' = {} \/ count' = 0
  PROVE  WorkConserving'
<1>1. Coming' \subseteq Workers
  BY DEF Coming
<1>2. Cardinality(Coming') \in Nat
  BY <1>1, ComingFinite
<1> QED BY <1>2 DEF WorkConserving

\* A step that adds no task and takes nobody off the way keeps the balance.
LEMMA BalanceKept ==
  ASSUME IInv, WorkConserving, count' = count, waiters' \subseteq waiters,
         Coming \subseteq Coming', mpc = "add_signal" => mpc' = "add_signal"
  PROVE  WorkConserving'
<1>1. Coming' \subseteq Workers /\ Coming \subseteq Workers
  BY DEF Coming
<1>2. IsFiniteSet(Coming') /\ Cardinality(Coming) \in Nat /\ Cardinality(Coming') \in Nat
  BY <1>1, ComingFinite
<1>3. Cardinality(Coming) <= Cardinality(Coming')
  BY <1>2, FS_Subset
<1>4. count \in Nat
  BY ThreadPoolAssumption DEF IInv, TypeOK
<1> QED BY <1>2, <1>3, <1>4 DEF WorkConserving

\* No worker that holds the lock of a stopped pool leaves a sleeper behind.
LEMMA SleepersAfterStop ==
  ASSUME IInv, stop, NEW w \in Workers, InWorkerSection(w)
  PROVE  waiters = {}
BY ThreadPoolAssumption
DEF IInv, StopReachesSleepers, LockInv, InMainSection, Workers, Main

\* Every step leaves an awake worker for every queued task.
LEMMA NextWorkConserving ==
  ASSUME IInv, WorkConserving, [Next]_vars
  PROVE  WorkConserving'
<1>a. count \in Nat
  BY ThreadPoolAssumption DEF IInv, TypeOK
<1>b. Coming \subseteq Workers /\ Coming' \subseteq Workers
  BY DEF Coming
<1> USE ThreadPoolAssumption DEF IInv, TypeOK, LockInv, LoopInv, WaitInv, WGoto, MGoto, ring
<1>1. ASSUME NEW w \in Workers, WLock(w) PROVE WorkConserving'
  BY <1>1, BalanceKept DEF WLock, Acquire, Coming
<1>2. ASSUME NEW w \in Workers, WWait(w) PROVE WorkConserving'
  <2>1. count' = 0
    BY <1>2 DEF WWait
  <2> QED BY <2>1, NobodyToWakeNext
<1>3. ASSUME NEW w \in Workers, WRelock(w) PROVE WorkConserving'
  BY <1>3, BalanceKept DEF WRelock, Acquire, Coming
<1>4. ASSUME NEW w \in Workers, WTest(w) PROVE WorkConserving'
  <2>1. CASE stop /\ count = 0
    <3>1. waiters' = {}
      BY <1>4, <2>1, SleepersAfterStop DEF WTest, InWorkerSection
    <3> QED BY <3>1, NobodyToWakeNext
  <2>2. CASE ~(stop /\ count = 0)
    BY <1>4, <2>2, BalanceKept DEF WTest, Coming
  <2> QED BY <2>1, <2>2
<1>5. ASSUME NEW w \in Workers, WTake(w) PROVE WorkConserving'
  BY <1>5, BalanceKept DEF WTake, Coming
<1>6. ASSUME NEW w \in Workers, WPop(w) PROVE WorkConserving'
  <2>1. Coming' = Coming \ {w} /\ w \in Coming
    BY <1>6 DEF WPop, Coming
  <2>2. Cardinality(Coming') = Cardinality(Coming) - 1
    BY <2>1, <1>b, ComingFinite, FS_RemoveElement
  <2>3. count' = count - 1 /\ waiters' = waiters /\ mpc' = mpc
    BY <1>6 DEF WPop
  <2> QED BY <2>2, <2>3, <1>a, <1>b, ComingFinite DEF WorkConserving
<1>7. ASSUME NEW w \in Workers, WUnlock(w) PROVE WorkConserving'
  BY <1>7, BalanceKept DEF WUnlock, Release, Coming
<1>8. ASSUME NEW w \in Workers, WRun(w) PROVE WorkConserving'
  BY <1>8, BalanceKept DEF WRun, Coming
<1>9. ASSUME NEW w \in Workers, WExit(w) PROVE WorkConserving'
  <2>1. waiters' = {}
    BY <1>9, SleepersAfterStop DEF WExit, InWorkerSection, StopInv
  <2> QED BY <2>1, NobodyToWakeNext
<1>10. ASSUME NEW w \in Workers, SpuriousWakeup(w) PROVE WorkConserving'
  BY <1>10, BalanceKept DEF SpuriousWakeup, Wake, Coming
<1>11. ASSUME CreateWorker PROVE WorkConserving'
  BY <1>11, BalanceKept DEF CreateWorker, Coming
<1>12. ASSUME MallocArg PROVE WorkConserving'
  BY <1>12, BalanceKept DEF MallocArg, Coming
<1>13. ASSUME AddLock PROVE WorkConserving'
  BY <1>13, BalanceKept DEF AddLock, Acquire, Coming
<1>14. ASSUME AddFull PROVE WorkConserving'
  BY <1>14, BalanceKept DEF AddFull, QueueFull, Coming
<1>15. ASSUME AddCheck PROVE WorkConserving'
  BY <1>15, BalanceKept DEF AddCheck, QueueFull, Coming
<1>16. ASSUME AddWrite PROVE WorkConserving'
  BY <1>16, BalanceKept DEF AddWrite, Coming
<1>17. ASSUME AddPush PROVE WorkConserving'
  <2>1. count' = count + 1 /\ waiters' = waiters /\ mpc = "add_push" /\ mpc' = "add_signal"
    BY <1>17 DEF AddPush
  <2>2. Coming' = Coming
    BY <1>17 DEF AddPush, Coming
  <2> QED BY <2>1, <2>2, <1>a, <1>b, ComingFinite DEF WorkConserving
<1>18. ASSUME AddSignal PROVE WorkConserving'
  <2>1. CASE waiters = {} /\ waiters' = waiters
    BY <2>1, NobodyToWakeNext
  <2>2. ASSUME NEW w \in waiters, Wake({w}) PROVE WorkConserving'
    <3>1. Coming' = Coming \cup {w} /\ w \notin Coming
      BY <2>2 DEF Wake, Coming
    <3>2. Cardinality(Coming') = Cardinality(Coming) + 1
      BY <3>1, <1>b, ComingFinite, FS_AddElement
    <3>3. count' = count /\ waiters # {} /\ mpc = "add_signal"
      BY <1>18, <2>2 DEF AddSignal
    <3> QED BY <3>2, <3>3, <1>a, <1>b, ComingFinite DEF WorkConserving
  <2> QED BY <1>18, <2>1, <2>2 DEF AddSignal
<1>19. ASSUME AddUnlock PROVE WorkConserving'
  BY <1>19, BalanceKept DEF AddUnlock, Release, Coming
<1>20. ASSUME StopLock PROVE WorkConserving'
  BY <1>20, BalanceKept DEF StopLock, Acquire, Coming
<1>21. ASSUME StopSet PROVE WorkConserving'
  BY <1>21, BalanceKept DEF StopSet, Coming
<1>22. ASSUME StopBroadcast PROVE WorkConserving'
  <2>1. waiters' = {}
    BY <1>22 DEF StopBroadcast, Wake
  <2> QED BY <2>1, NobodyToWakeNext
<1>23. ASSUME StopUnlock PROVE WorkConserving'
  BY <1>23, BalanceKept DEF StopUnlock, Release, Coming
<1>24. ASSUME Join PROVE WorkConserving'
  BY <1>24, BalanceKept DEF Join, Coming
<1>25. ASSUME Destroy PROVE WorkConserving'
  BY <1>25, BalanceKept DEF Destroy, Coming
<1>26. ASSUME UNCHANGED vars PROVE WorkConserving'
  BY <1>26, BalanceKept DEF vars, Coming
<1> QED
  BY <1>1, <1>2, <1>3, <1>4, <1>5, <1>6, <1>7, <1>8, <1>9, <1>10, <1>11, <1>12, <1>13, <1>14, <1>15, <1>16, <1>17, <1>18, <1>19, <1>20, <1>21, <1>22, <1>23, <1>24, <1>25, <1>26
  DEF Next, Worker, MainThread, Terminated

\* No signal of thread_pool_add_task is lost: while a worker sleeps, every
\* queued task has an awake worker that has not yet looked at the queue.
THEOREM NoLostWakeup == Spec => []WorkConserving
<1>1. Init => WorkConserving
  <2>1. Init => count = 0 /\ Coming \subseteq Workers
    BY DEF Init, Coming
  <2> QED BY <2>1, ComingFinite DEF WorkConserving
<1>2. Spec => []IInv
  BY InitIInv, NextIInv, PTL DEF Spec
<1> QED BY <1>1, <1>2, NextWorkConserving, PTL DEF Spec

-------------------------------------------------------------------------------
(* The occupied part of the ring as a sequence.                            *)

\* Two different distances below the ring's size are two different slots.
LEMMA SlotAtInjective ==
  ASSUME front \in Slots, NEW j \in 0 .. MaxQueueSize, NEW k \in 0 .. MaxQueueSize,
         j < k, k < MaxQueueSize
  PROVE  SlotAt(j) # SlotAt(k)
<1>1. SlotAt(j) = (IF front + j < MaxQueueSize THEN front + j
                   ELSE front + j - MaxQueueSize)
  BY SlotAtValue
<1>2. SlotAt(k) = (IF front + k < MaxQueueSize THEN front + k
                   ELSE front + k - MaxQueueSize)
  BY SlotAtValue
<1> QED BY <1>1, <1>2, ThreadPoolAssumption DEF Slots

\* After a task is taken, what was k + 1 slots from front is k slots from it.
LEMMA SlotAtShift ==
  ASSUME front \in Slots, front' = Succ(front), NEW k \in 0 .. MaxQueueSize - 1
  PROVE  (front' + k) % MaxQueueSize = SlotAt(k + 1)
<1>1. front' = (IF front + 1 = MaxQueueSize THEN 0 ELSE front + 1) /\ front' \in Slots
  BY SuccSlot
<1>2. SlotAt(k + 1) = (IF front + (k + 1) < MaxQueueSize THEN front + (k + 1)
                       ELSE front + (k + 1) - MaxQueueSize)
  <2>1. k + 1 \in 0 .. MaxQueueSize
    BY ThreadPoolAssumption
  <2> QED BY <2>1, SlotAtValue
<1>3. (front' + k) % MaxQueueSize = (IF front' + k < MaxQueueSize THEN front' + k
                                     ELSE front' + k - MaxQueueSize)
  <2>1. k \in 0 .. MaxQueueSize
    BY ThreadPoolAssumption
  <2> QED BY <2>1, <1>1, Around, Zenon
<1> QED BY <1>1, <1>2, <1>3, ThreadPoolAssumption DEF Slots

\* The abstract queue is the occupied part of the ring.
LEMMA WaitingFacts ==
  ASSUME TypeOK, CopyInv
  PROVE  /\ Waiting \in Seq(Tasks)
         /\ Len(Waiting) = count /\ DOMAIN Waiting = 1 .. count
         /\ \A k \in 1 .. count : Waiting[k] = queue[SlotAt(k - 1)]
<1>1. \A k \in 1 .. count : queue[SlotAt(k - 1)] \in Tasks
  BY DEF CopyInv, TypeOK
<1>2. count \in Nat
  BY ThreadPoolAssumption DEF TypeOK
<1> QED BY <1>1, <1>2 DEF Waiting

\* What Append returns, by position.
LEMMA AppendAt ==
  ASSUME NEW S, NEW s \in Seq(S), NEW e \in S, NEW n \in Nat, Len(s) = n
  PROVE  /\ Append(s, e) \in Seq(S) /\ Len(Append(s, e)) = n + 1
         /\ Append(s, e)[n + 1] = e
         /\ \A k \in 1 .. n : Append(s, e)[k] = s[k]
BY AppendProperties, ZenonT(60)

\* thread_pool_add_task puts the task at the tail of the abstract queue.
LEMMA PushAppends ==
  ASSUME IInv, CopyInv, AddPush
  PROVE  Waiting' = Append(Waiting, i)
<1>1. /\ mpc = "add_push" /\ count' = count + 1 /\ front' = front /\ queue' = queue
      /\ i \in Tasks /\ count \in Nat
  BY ThreadPoolAssumption DEF AddPush, MGoto, IInv, TypeOK, LoopInv, Tasks
<1>2. queue[SlotAt(count)] = i
  BY <1>1 DEF IInv, RearInv, CopyInv
<1>3. Waiting' = [k \in 1 .. count + 1 |-> queue[SlotAt(k - 1)]]
  BY <1>1 DEF Waiting, SlotAt
<1>4. /\ Waiting \in Seq(Tasks) /\ Len(Waiting) = count
      /\ \A k \in 1 .. count : Waiting[k] = queue[SlotAt(k - 1)]
  BY WaitingFacts DEF IInv
<1>5. /\ Append(Waiting, i) \in Seq(Tasks) /\ Len(Append(Waiting, i)) = count + 1
      /\ Append(Waiting, i)[count + 1] = i
      /\ \A k \in 1 .. count : Append(Waiting, i)[k] = Waiting[k]
  BY <1>1, <1>4, AppendAt
<1>6. \A k \in 1 .. count + 1 : queue[SlotAt(k - 1)] = Append(Waiting, i)[k]
  <2> SUFFICES ASSUME NEW k \in 1 .. count + 1
               PROVE  queue[SlotAt(k - 1)] = Append(Waiting, i)[k]
    OBVIOUS
  <2>1. CASE k = count + 1
    <3>1. k - 1 = count
      BY <2>1, <1>1
    <3> QED BY <3>1, <2>1, <1>2, <1>5
  <2>2. CASE k \in 1 .. count
    BY <2>2, <1>4, <1>5
  <2>3. k = count + 1 \/ k \in 1 .. count
    BY <1>1
  <2> QED BY <2>1, <2>2, <2>3
<1>7. /\ Waiting' \in Seq(Tasks) /\ Len(Waiting') = count + 1
      /\ \A k \in 1 .. count + 1 : Waiting'[k] = Append(Waiting, i)[k]
  <2>1. \A k \in 1 .. count + 1 : queue[SlotAt(k - 1)] \in Tasks
    BY <1>5, <1>6, ElementOfSeq
  <2>2. count + 1 \in Nat
    BY <1>1
  <2>3. Waiting' \in Seq(Tasks) /\ Len(Waiting') = count + 1
    BY <2>1, <2>2, <1>3
  <2>4. \A k \in 1 .. count + 1 : Waiting'[k] = Append(Waiting, i)[k]
    BY <1>3, <1>6
  <2> QED BY <2>3, <2>4
<1> QED BY <1>5, <1>7, SeqEqual

\* A worker takes the head of the abstract queue.
LEMMA PopTakesHead ==
  ASSUME IInv, CopyInv, NEW w \in Workers, WPop(w)
  PROVE  Waiting # <<>> /\ task[w] = Head(Waiting) /\ Waiting' = Tail(Waiting)
<1>1. /\ wpc[w] = "pop" /\ count' = count - 1 /\ front' = Succ(front) /\ queue' = queue
      /\ count \in 1 .. MaxQueueSize /\ front \in Slots
  BY ThreadPoolAssumption DEF WPop, WGoto, IInv, TypeOK, RingInv
<1>2. Len(Waiting) = count /\ (\A k \in 1 .. count : Waiting[k] = queue[SlotAt(k - 1)])
      /\ Waiting \in Seq(Tasks)
  BY WaitingFacts DEF IInv
<1>3. SlotAt(0) = front
  BY <1>1, SlotAtValue, ThreadPoolAssumption DEF Slots
<1>4. Waiting # <<>> /\ Head(Waiting) = queue[front]
  BY <1>1, <1>2, <1>3
<1>5. Waiting' = [k \in 1 .. count - 1 |-> queue[SlotAt(k)]]
  <2>1. Waiting' = [k \in 1 .. count - 1 |-> queue[(front' + (k - 1)) % MaxQueueSize]]
    BY <1>1 DEF Waiting, SlotAt
  <2>2. ASSUME NEW k \in 1 .. count - 1
        PROVE  (front' + (k - 1)) % MaxQueueSize = SlotAt(k)
    <3>1. k - 1 \in 0 .. MaxQueueSize - 1 /\ (k - 1) + 1 = k
      BY <1>1, ThreadPoolAssumption
    <3> QED BY <3>1, <1>1, SlotAtShift
  <2> QED BY <2>1, <2>2
<1>6. /\ Tail(Waiting) \in Seq(Tasks) /\ Len(Tail(Waiting)) = count - 1
      /\ \A k \in 1 .. count - 1 : Tail(Waiting)[k] = queue[SlotAt(k)]
  BY <1>1, <1>2
<1>7. /\ Waiting' \in Seq(Tasks) /\ Len(Waiting') = count - 1
      /\ \A k \in 1 .. count - 1 : Waiting'[k] = Tail(Waiting)[k]
  <2>1. count - 1 \in Nat
    BY <1>1, ThreadPoolAssumption
  <2>2. \A k \in 1 .. count - 1 : queue[SlotAt(k)] \in Tasks
    BY <1>6, ElementOfSeq
  <2> QED BY <2>1, <2>2, <1>5, <1>6
<1>8. Waiting' = Tail(Waiting)
  BY <1>6, <1>7, SeqEqual
<1> QED BY <1>1, <1>4, <1>8 DEF CopyInv

\* Writing the slot at rear changes no pending task.
LEMMA WriteKeepsWaiting ==
  ASSUME IInv, CopyInv, AddWrite
  PROVE  Waiting' = Waiting
<1>1. /\ queue' = [queue EXCEPT ![rear] = i] /\ count' = count /\ front' = front
      /\ count \in 0 .. MaxQueueSize /\ count < MaxQueueSize /\ front \in Slots
      /\ rear = SlotAt(count) /\ queue \in [Slots -> Tasks \cup {NoTask}]
  BY ThreadPoolAssumption DEF AddWrite, MGoto, IInv, TypeOK, RingInv, RearInv
<1>2. ASSUME NEW k \in 1 .. count
      PROVE  queue'[SlotAt(k - 1)] = queue[SlotAt(k - 1)]
  <2>1. k - 1 \in 0 .. MaxQueueSize /\ k - 1 < count
    BY <1>1, ThreadPoolAssumption
  <2>2. SlotAt(k - 1) # rear
    BY <1>1, <2>1, SlotAtInjective
  <2>3. SlotAt(k - 1) \in Slots
    BY <1>1, <2>1, SlotAtValue
  <2> QED BY <1>1, <2>2, <2>3
<1> QED BY <1>1, <1>2 DEF Waiting, SlotAt

-------------------------------------------------------------------------------
(* What each step does to the abstract state.                              *)
\* The task main is about to submit is not known to the pool yet.
LEMMA NotKnown ==
  ASSUME IInv, SubmitInv,
         mpc \in {"malloc", "add_lock", "add_check", "add_write", "add_push"}
  PROVE  i \in Tasks /\ i \notin Pool!Known /\ arg[i] # "freed" /\ i \notin rejected
<1>1. i \in Tasks
  BY ThreadPoolAssumption DEF IInv, TypeOK, LoopInv, Tasks
<1>a. Submitted = i
  BY DEF Submitted
<1>2. i \notin Pool!Known
  BY <1>1, <1>a DEF SubmitInv, Tasks
<1> QED BY <1>1, <1>2 DEF Pool!Known, Freed

\* The task in a busy worker's hands is known to the pool.
LEMMA BusyKnown ==
  ASSUME CopyInv, NEW w \in Workers, wpc[w] \in {"unlock", "run"}
  PROVE  task[w] \in Pool!Known /\ task[w] \in Tasks /\ Busy[w] = task[w]
<1>1. task[w] \in Tasks /\ Busy[w] = task[w] /\ task[w] # NoTask
  BY ThreadPoolAssumption DEF CopyInv, Busy, Tasks, NoTask
<1> QED BY <1>1 DEF Pool!Known, Pool!Running

\* Steps that only move a thread, take or release the lock, or wake workers
\* leave the abstract state alone.
LEMMA QuietSteps ==
  ASSUME IInv, CopyInv, SubmitInv,
         \/ \E w \in Workers :
              WLock(w) \/ WWait(w) \/ WRelock(w) \/ SpuriousWakeup(w) \/ WTest(w)
              \/ WTake(w) \/ WUnlock(w) \/ WExit(w)
         \/ CreateWorker \/ MallocArg \/ AddLock \/ AddCheck \/ AddSignal \/ AddUnlock
         \/ StopLock \/ StopBroadcast \/ StopUnlock \/ Join
  PROVE  UNCHANGED <<Waiting, Busy, Freed, rejected, Phase, Submitted>>
<1> USE ThreadPoolAssumption
    DEF IInv, TypeOK, LockInv, LoopInv, WaitInv, StopInv, Workers, Main, Nobody, WGoto, MGoto,
        ring, Waiting, SlotAt, Busy, Freed, Phase, Submitted
<1>1. ASSUME NEW w \in Workers, WLock(w)
      PROVE  UNCHANGED <<Waiting, Busy, Freed, rejected, Phase, Submitted>>
  BY <1>1 DEF WLock, Acquire
<1>2. ASSUME NEW w \in Workers, WWait(w)
      PROVE  UNCHANGED <<Waiting, Busy, Freed, rejected, Phase, Submitted>>
  BY <1>2 DEF WWait, Release
<1>3. ASSUME NEW w \in Workers, WRelock(w)
      PROVE  UNCHANGED <<Waiting, Busy, Freed, rejected, Phase, Submitted>>
  BY <1>3 DEF WRelock, Acquire
<1>4. ASSUME NEW w \in Workers, WTest(w)
      PROVE  UNCHANGED <<Waiting, Busy, Freed, rejected, Phase, Submitted>>
  BY <1>4 DEF WTest
<1>5. ASSUME NEW w \in Workers, WTake(w)
      PROVE  UNCHANGED <<Waiting, Busy, Freed, rejected, Phase, Submitted>>
  BY <1>5 DEF WTake
<1>6. ASSUME NEW w \in Workers, WUnlock(w)
      PROVE  UNCHANGED <<Waiting, Busy, Freed, rejected, Phase, Submitted>>
  BY <1>6 DEF WUnlock, Release
<1>7. ASSUME NEW w \in Workers, WExit(w)
      PROVE  UNCHANGED <<Waiting, Busy, Freed, rejected, Phase, Submitted>>
  BY <1>7 DEF WExit, Release
<1>8. ASSUME NEW w \in Workers, SpuriousWakeup(w)
      PROVE  UNCHANGED <<Waiting, Busy, Freed, rejected, Phase, Submitted>>
  BY <1>8 DEF SpuriousWakeup, Wake
<1>9. ASSUME CreateWorker
      PROVE  UNCHANGED <<Waiting, Busy, Freed, rejected, Phase, Submitted>>
  BY <1>9, SMTT(30) DEF CreateWorker
<1>10. ASSUME MallocArg
      PROVE  UNCHANGED <<Waiting, Busy, Freed, rejected, Phase, Submitted>>
  <2>1. arg[i] # "freed"
    BY <1>10, NotKnown DEF MallocArg
  <2>2. i \in Tasks
    BY <1>10 DEF MallocArg, Tasks
  <2> QED BY <1>10, <2>1, <2>2 DEF MallocArg
<1>11. ASSUME AddLock
      PROVE  UNCHANGED <<Waiting, Busy, Freed, rejected, Phase, Submitted>>
  BY <1>11 DEF AddLock, Acquire
<1>12. ASSUME AddCheck
      PROVE  UNCHANGED <<Waiting, Busy, Freed, rejected, Phase, Submitted>>
  BY <1>12 DEF AddCheck, QueueFull
<1>13. ASSUME AddSignal
      PROVE  UNCHANGED <<Waiting, Busy, Freed, rejected, Phase, Submitted>>
  BY <1>13, SMTT(30) DEF AddSignal, Wake
<1>14. ASSUME AddUnlock
      PROVE  UNCHANGED <<Waiting, Busy, Freed, rejected, Phase, Submitted>>
  BY <1>14 DEF AddUnlock, Release
<1>15. ASSUME StopLock
      PROVE  UNCHANGED <<Waiting, Busy, Freed, rejected, Phase, Submitted>>
  BY <1>15 DEF StopLock, Acquire
<1>16. ASSUME StopBroadcast
      PROVE  UNCHANGED <<Waiting, Busy, Freed, rejected, Phase, Submitted>>
  BY <1>16 DEF StopBroadcast, Wake
<1>17. ASSUME StopUnlock
      PROVE  UNCHANGED <<Waiting, Busy, Freed, rejected, Phase, Submitted>>
  BY <1>17 DEF StopUnlock, Release
<1>18. ASSUME Join
      PROVE  UNCHANGED <<Waiting, Busy, Freed, rejected, Phase, Submitted>>
  BY <1>18 DEF Join
<1> QED BY <1>1, <1>2, <1>3, <1>4, <1>5, <1>6, <1>7, <1>8, <1>9, <1>10, <1>11, <1>12, <1>13, <1>14, <1>15, <1>16, <1>17, <1>18

\* What was copied under the lock is still what the indices point to.
LEMMA NextCopyInv ==
  ASSUME IInv, CopyInv, [Next]_vars
  PROVE  CopyInv'
<1> USE ThreadPoolAssumption
    DEF IInv, TypeOK, LockInv, LoopInv, RingInv, InWorkerSection, InMainSection,
        CopyInv, SlotAt, Tasks, Workers, Main, Nobody, WGoto, MGoto, ring
<1>1. ASSUME NEW w \in Workers, WLock(w) PROVE CopyInv'
  BY <1>1 DEF WLock, Acquire
<1>2. ASSUME NEW w \in Workers, WWait(w) PROVE CopyInv'
  BY <1>2 DEF WWait, Release
<1>3. ASSUME NEW w \in Workers, WRelock(w) PROVE CopyInv'
  BY <1>3 DEF WRelock, Acquire
<1>4. ASSUME NEW w \in Workers, WTest(w) PROVE CopyInv'
  BY <1>4 DEF WTest
<1>5. ASSUME NEW w \in Workers, WTake(w) PROVE CopyInv'
  BY <1>5 DEF WTake
<1>6. ASSUME NEW w \in Workers, WPop(w) PROVE CopyInv'
  <2>a. Waiting # <<>> /\ task[w] = Head(Waiting) /\ Waiting \in Seq(Tasks)
    BY <1>6, PopTakesHead, WaitingFacts, Zenon
  <2>1. queue' = queue /\ task[w] \in Tasks
    BY <1>6, <2>a, HeadTailProperties DEF WPop
  <2>2. ASSUME NEW k \in 0 .. count' - 1 PROVE queue'[SlotAt(k)'] \in Tasks
    <3>1. SlotAt(k)' = SlotAt(k + 1)
      BY <1>6, SlotAtShift DEF WPop
    <3> QED BY <3>1, <1>6 DEF WPop
  <2> QED BY <2>1, <2>2, <1>6 DEF WPop
<1>7. ASSUME NEW w \in Workers, WUnlock(w) PROVE CopyInv'
  BY <1>7 DEF WUnlock, Release
<1>8. ASSUME NEW w \in Workers, WRun(w) PROVE CopyInv'
  BY <1>8 DEF WRun
<1>9. ASSUME NEW w \in Workers, WExit(w) PROVE CopyInv'
  BY <1>9 DEF WExit, Release
<1>10. ASSUME NEW w \in Workers, SpuriousWakeup(w) PROVE CopyInv'
  BY <1>10 DEF SpuriousWakeup, Wake
<1>11. ASSUME CreateWorker PROVE CopyInv'
  BY <1>11 DEF CreateWorker
<1>12. ASSUME MallocArg PROVE CopyInv'
  BY <1>12 DEF MallocArg
<1>13. ASSUME AddLock PROVE CopyInv'
  BY <1>13 DEF AddLock, Acquire
<1>14. ASSUME AddFull PROVE CopyInv'
  BY <1>14 DEF AddFull, QueueFull
<1>15. ASSUME AddCheck PROVE CopyInv'
  BY <1>15 DEF AddCheck, QueueFull
<1>16. ASSUME AddWrite PROVE CopyInv'
  BY <1>16 DEF AddWrite
<1>17. ASSUME AddPush PROVE CopyInv'
  <2>1. queue[SlotAt(count)] = i
    BY <1>17 DEF AddPush, RearInv
  <2> QED BY <2>1, <1>17 DEF AddPush
<1>18. ASSUME AddSignal PROVE CopyInv'
  BY <1>18 DEF AddSignal, Wake
<1>19. ASSUME AddUnlock PROVE CopyInv'
  BY <1>19 DEF AddUnlock, Release
<1>20. ASSUME StopLock PROVE CopyInv'
  BY <1>20 DEF StopLock, Acquire
<1>21. ASSUME StopSet PROVE CopyInv'
  BY <1>21 DEF StopSet
<1>22. ASSUME StopBroadcast PROVE CopyInv'
  BY <1>22 DEF StopBroadcast, Wake
<1>23. ASSUME StopUnlock PROVE CopyInv'
  BY <1>23 DEF StopUnlock, Release
<1>24. ASSUME Join PROVE CopyInv'
  BY <1>24 DEF Join
<1>25. ASSUME Destroy PROVE CopyInv'
  BY <1>25 DEF Destroy
<1>26. ASSUME UNCHANGED vars PROVE CopyInv'
  BY <1>26 DEF vars
<1> QED
  BY <1>1, <1>2, <1>3, <1>4, <1>5, <1>6, <1>7, <1>8, <1>9, <1>10, <1>11, <1>12, <1>13, <1>14, <1>15, <1>16, <1>17, <1>18, <1>19, <1>20, <1>21, <1>22, <1>23, <1>24, <1>25, <1>26
  DEF Next, Worker, MainThread, Terminated

\* main allocates the arguments in the order in which it submits the tasks.
LEMMA NextArgInv ==
  ASSUME IInv, CopyInv, SubmitInv, ArgInv, [Next]_vars
  PROVE  ArgInv'
<1> USE ThreadPoolAssumption
    DEF IInv, TypeOK, LoopInv, CopyInv, ArgInv, WithMain, Submitted, Tasks, Workers,
        WGoto, MGoto, ring
<1>1. ASSUME NEW w \in Workers, WLock(w) PROVE ArgInv'
  BY <1>1 DEF WLock, Acquire
<1>2. ASSUME NEW w \in Workers, WWait(w) PROVE ArgInv'
  BY <1>2 DEF WWait, Release
<1>3. ASSUME NEW w \in Workers, WRelock(w) PROVE ArgInv'
  BY <1>3 DEF WRelock, Acquire
<1>4. ASSUME NEW w \in Workers, WTest(w) PROVE ArgInv'
  BY <1>4 DEF WTest
<1>5. ASSUME NEW w \in Workers, WTake(w) PROVE ArgInv'
  BY <1>5 DEF WTake
<1>6. ASSUME NEW w \in Workers, WPop(w) PROVE ArgInv'
  BY <1>6 DEF WPop
<1>7. ASSUME NEW w \in Workers, WUnlock(w) PROVE ArgInv'
  BY <1>7 DEF WUnlock, Release
<1>8. ASSUME NEW w \in Workers, WRun(w) PROVE ArgInv'
  <2>1. task[w] \in Tasks /\ task[w] < Submitted
    BY <1>8, BusyKnown DEF WRun, SubmitInv
  <2> QED BY <2>1, <1>8, SMTT(30) DEF WRun
<1>9. ASSUME NEW w \in Workers, WExit(w) PROVE ArgInv'
  BY <1>9 DEF WExit, Release
<1>10. ASSUME NEW w \in Workers, SpuriousWakeup(w) PROVE ArgInv'
  BY <1>10 DEF SpuriousWakeup, Wake
<1>11. ASSUME CreateWorker PROVE ArgInv'
  BY <1>11 DEF CreateWorker
<1>12. ASSUME MallocArg PROVE ArgInv'
  BY <1>12 DEF MallocArg
<1>13. ASSUME AddLock PROVE ArgInv'
  BY <1>13 DEF AddLock, Acquire
<1>14. ASSUME AddFull PROVE ArgInv'
  BY <1>14 DEF AddFull, QueueFull
<1>15. ASSUME AddCheck PROVE ArgInv'
  BY <1>15 DEF AddCheck, QueueFull
<1>16. ASSUME AddWrite PROVE ArgInv'
  BY <1>16 DEF AddWrite
<1>17. ASSUME AddPush PROVE ArgInv'
  BY <1>17, SMTT(30) DEF AddPush
<1>18. ASSUME AddSignal PROVE ArgInv'
  BY <1>18 DEF AddSignal, Wake
<1>19. ASSUME AddUnlock PROVE ArgInv'
  BY <1>19 DEF AddUnlock, Release
<1>20. ASSUME StopLock PROVE ArgInv'
  BY <1>20 DEF StopLock, Acquire
<1>21. ASSUME StopSet PROVE ArgInv'
  BY <1>21 DEF StopSet
<1>22. ASSUME StopBroadcast PROVE ArgInv'
  BY <1>22 DEF StopBroadcast, Wake
<1>23. ASSUME StopUnlock PROVE ArgInv'
  BY <1>23 DEF StopUnlock, Release
<1>24. ASSUME Join PROVE ArgInv'
  BY <1>24 DEF Join
<1>25. ASSUME Destroy PROVE ArgInv'
  BY <1>25 DEF Destroy
<1>26. ASSUME UNCHANGED vars PROVE ArgInv'
  BY <1>26 DEF vars
<1> QED
  BY <1>1, <1>2, <1>3, <1>4, <1>5, <1>6, <1>7, <1>8, <1>9, <1>10, <1>11, <1>12, <1>13, <1>14, <1>15, <1>16, <1>17, <1>18, <1>19, <1>20, <1>21, <1>22, <1>23, <1>24, <1>25, <1>26
  DEF Next, Worker, MainThread, Terminated

-------------------------------------------------------------------------------
(* Step simulation.                                                        *)

\* The client hands over the next task, which is nowhere yet: it is pending.
LEMMA AcceptOnePlace ==
  ASSUME Tasks \subseteq Nat, NoTask \notin Tasks, Pool!TypeOK, Pool!OnePlace,
         NEW t \in Tasks, Pool!Accept(t)
  PROVE  Pool!TypeOK' /\ Pool!OnePlace'
<1>1. t \notin Pool!Known
  BY DEF Pool!Accept, Pool!IsNext
<1>2. /\ Waiting' \in Seq(Tasks)
      /\ Len(Waiting') = Len(Waiting) + 1
      /\ \A k \in 1 .. Len(Waiting) : Waiting'[k] = Waiting[k]
      /\ Waiting'[Len(Waiting) + 1] = t
  BY DEF Pool!Accept, Pool!TypeOK
<1>3. DOMAIN Waiting = 1 .. Len(Waiting) /\ DOMAIN Waiting' = 1 .. Len(Waiting) + 1
      /\ Len(Waiting) \in Nat
  BY <1>2 DEF Pool!TypeOK
<1>4. Pool!Pending' = Pool!Pending \cup {t}
  BY <1>2, <1>3 DEF Pool!Pending
<1>5. UNCHANGED <<Pool!Running, Busy, Freed, rejected>>
  BY DEF Pool!Accept, Pool!Running
<1>6. Pool!TypeOK'
  BY <1>2, <1>5 DEF Pool!TypeOK
<1>7. \A k \in DOMAIN Waiting : Waiting[k] # t
  BY <1>1 DEF Pool!Known, Pool!Pending
<1>8. \A j, k \in DOMAIN Waiting' : Waiting'[j] = Waiting'[k] => j = k
  BY <1>2, <1>3, <1>7 DEF Pool!OnePlace
<1> QED BY <1>1, <1>4, <1>5, <1>6, <1>8 DEF Pool!OnePlace, Pool!Known

\* A worker takes the oldest pending task: it moves from pending to running.
LEMMA StartOnePlace ==
  ASSUME NoTask \notin Tasks, Pool!TypeOK, Pool!OnePlace, NEW w \in Workers, Pool!Start(w)
  PROVE  Pool!TypeOK' /\ Pool!OnePlace'
<1> DEFINE t == Head(Waiting)
<1>1. /\ Waiting' \in Seq(Tasks)
      /\ Len(Waiting) \in Nat \ {0}
      /\ t \in Tasks /\ t = Waiting[1]
      /\ Len(Waiting') = Len(Waiting) - 1
      /\ \A k \in 1 .. Len(Waiting) - 1 : Waiting'[k] = Waiting[k + 1]
  BY DEF Pool!Start, Pool!TypeOK
<1>2. DOMAIN Waiting = 1 .. Len(Waiting) /\ DOMAIN Waiting' = 1 .. Len(Waiting) - 1
  BY <1>1 DEF Pool!TypeOK
<1>3. /\ Busy' \in [Workers -> Tasks \cup {NoTask}]
      /\ Busy'[w] = t
      /\ \A v \in Workers \ {w} : Busy'[v] = Busy[v]
      /\ Busy[w] = NoTask
      /\ UNCHANGED <<Freed, rejected>>
  BY <1>1 DEF Pool!Start, Pool!TypeOK
<1>4. Pool!TypeOK'
  BY <1>1, <1>3 DEF Pool!TypeOK
<1>5. \A k \in DOMAIN Waiting' : Waiting'[k] # t /\ Waiting'[k] \in Pool!Pending
  BY <1>1, <1>2, SMTT(30) DEF Pool!OnePlace, Pool!Pending
<1>6. Pool!Pending' = Pool!Pending \ {t} /\ t \in Pool!Pending
  <2>1. Pool!Pending' \subseteq Pool!Pending \ {t}
    BY <1>5 DEF Pool!Pending
  <2>2. ASSUME NEW k \in DOMAIN Waiting, Waiting[k] # t PROVE Waiting[k] \in Pool!Pending'
    <3>1. k - 1 \in DOMAIN Waiting' /\ Waiting'[k - 1] = Waiting[k]
      BY <1>1, <1>2, <2>2
    <3> QED BY <3>1 DEF Pool!Pending
  <2>3. Pool!Pending \ {t} \subseteq Pool!Pending'
    BY <2>2 DEF Pool!Pending
  <2>4. t \in Pool!Pending
    BY <1>1, <1>2 DEF Pool!Pending
  <2> QED BY <2>1, <2>3, <2>4
<1>7. Pool!Running' = Pool!Running \cup {t}
  BY <1>1, <1>3 DEF Pool!Running
<1>8. \A j, k \in DOMAIN Waiting' : Waiting'[j] = Waiting'[k] => j = k
  <2> SUFFICES ASSUME NEW j \in DOMAIN Waiting', NEW k \in DOMAIN Waiting',
                      Waiting'[j] = Waiting'[k]
               PROVE  j = k
    OBVIOUS
  <2>1. Waiting[j + 1] = Waiting[k + 1] /\ j + 1 \in DOMAIN Waiting /\ k + 1 \in DOMAIN Waiting
    BY <1>1, <1>2
  <2>2. j + 1 = k + 1
    BY <2>1 DEF Pool!OnePlace
  <2> QED BY <2>2, <1>2
<1>9. \A u, v \in Workers : Busy'[u] = Busy'[v] /\ Busy'[u] # NoTask => u = v
  <2>1. \A v \in Workers : Busy[v] # t
    BY <1>6, <1>1 DEF Pool!OnePlace, Pool!Running
  <2> QED BY <2>1, <1>3 DEF Pool!OnePlace
<1> QED BY <1>3, <1>4, <1>6, <1>7, <1>8, <1>9 DEF Pool!OnePlace

\* A worker finishes its task: it moves from running to finished.
LEMMA FinishOnePlace ==
  ASSUME NoTask \notin Tasks, Pool!TypeOK, Pool!OnePlace, NEW w \in Workers, Pool!Finish(w)
  PROVE  Pool!TypeOK' /\ Pool!OnePlace'
<1> DEFINE t == Busy[w]
<1>1. /\ t \in Tasks /\ t \in Pool!Running
      /\ Busy' \in [Workers -> Tasks \cup {NoTask}]
      /\ Busy'[w] = NoTask
      /\ \A v \in Workers \ {w} : Busy'[v] = Busy[v]
      /\ Freed' = Freed \cup {t}
      /\ UNCHANGED <<Waiting, rejected, Pool!Pending>>
  BY DEF Pool!Finish, Pool!TypeOK, Pool!Running, Pool!Pending
<1>2. Pool!Running' = Pool!Running \ {t}
  BY <1>1 DEF Pool!Running, Pool!OnePlace
<1> QED BY <1>1, <1>2 DEF Pool!OnePlace, Pool!TypeOK

\* The client's tasks become known one by one, when accepted or rejected, and
\* stay known while they run and after they have run.
LEMMA KnownGrows ==
  ASSUME NoTask \notin Tasks, Pool!TypeOK
  PROVE  /\ \A t \in Tasks : Pool!Accept(t) \/ Pool!Reject(t) => Pool!Known' = Pool!Known \cup {t}
         /\ \A w \in Workers : Pool!Start(w) \/ Pool!Finish(w) => Pool!Known' = Pool!Known
<1>1. ASSUME NEW t \in Tasks, Pool!Accept(t) PROVE Pool!Known' = Pool!Known \cup {t}
  <2>1. /\ Len(Waiting) \in Nat /\ DOMAIN Waiting = 1 .. Len(Waiting)
        /\ DOMAIN Waiting' = 1 .. Len(Waiting) + 1
        /\ \A k \in 1 .. Len(Waiting) : Waiting'[k] = Waiting[k]
        /\ Waiting'[Len(Waiting) + 1] = t
    BY <1>1 DEF Pool!Accept, Pool!TypeOK
  <2>2. Pool!Pending' = Pool!Pending \cup {t}
    BY <2>1 DEF Pool!Pending
  <2> QED BY <1>1, <2>2 DEF Pool!Accept, Pool!Known, Pool!Running
<1>2. ASSUME NEW t \in Tasks, Pool!Reject(t) PROVE Pool!Known' = Pool!Known \cup {t}
  BY <1>2 DEF Pool!Reject, Pool!Known, Pool!Running, Pool!Pending
<1>3. ASSUME NEW w \in Workers, Pool!Start(w) PROVE Pool!Known' = Pool!Known
  <2> DEFINE t == Head(Waiting)
  <2>1. /\ Len(Waiting) \in Nat \ {0} /\ t \in Tasks /\ t = Waiting[1]
        /\ DOMAIN Waiting = 1 .. Len(Waiting)
        /\ DOMAIN Waiting' = 1 .. Len(Waiting) - 1
        /\ \A k \in 1 .. Len(Waiting) - 1 : Waiting'[k] = Waiting[k + 1]
    BY <1>3 DEF Pool!Start, Pool!TypeOK
  <2>2. Pool!Pending' \cup {t} = Pool!Pending
    <3>1. Pool!Pending' \cup {t} \subseteq Pool!Pending
      BY <2>1 DEF Pool!Pending
    <3>2. ASSUME NEW k \in DOMAIN Waiting PROVE Waiting[k] \in Pool!Pending' \cup {t}
      <4>1. CASE k = 1
        BY <4>1, <2>1
      <4>2. CASE k # 1
        <5>1. k - 1 \in DOMAIN Waiting' /\ Waiting'[k - 1] = Waiting[k]
          BY <4>2, <2>1
        <5> QED BY <5>1 DEF Pool!Pending
      <4> QED BY <4>1, <4>2
    <3>3. Pool!Pending \subseteq Pool!Pending' \cup {t}
      BY <3>2 DEF Pool!Pending
    <3> QED BY <3>1, <3>3
  <2>3. Pool!Running' = Pool!Running \cup {t}
    BY <1>3, <2>1 DEF Pool!Start, Pool!TypeOK, Pool!Running
  <2> QED BY <1>3, <2>2, <2>3 DEF Pool!Start, Pool!Known
<1>4. ASSUME NEW w \in Workers, Pool!Finish(w) PROVE Pool!Known' = Pool!Known
  <2> DEFINE t == Busy[w]
  <2>1. Pool!Running' \cup {t} = Pool!Running
    BY <1>4 DEF Pool!Finish, Pool!TypeOK, Pool!Running
  <2>2. Freed' = Freed \cup {t} /\ rejected' = rejected /\ Pool!Pending' = Pool!Pending
    BY <1>4 DEF Pool!Finish, Pool!Pending
  <2> QED BY <2>1, <2>2 DEF Pool!Known
<1> QED BY <1>1, <1>2, <1>3, <1>4

\* No step of the abstract pool puts a task in a second place.
THEOREM OnePlaceInv ==
  ASSUME Tasks \subseteq Nat, NoTask \notin Tasks
  PROVE  Pool!Spec => [](Pool!TypeOK /\ Pool!OnePlace)
<1>1. Pool!Init => Pool!TypeOK /\ Pool!OnePlace
  BY DEF Pool!Init, Pool!TypeOK, Pool!OnePlace, Pool!Pending, Pool!Running
<1>2. Pool!TypeOK /\ Pool!OnePlace /\ [Pool!Next]_(Pool!vars) => (Pool!TypeOK /\ Pool!OnePlace)'
  <2> SUFFICES ASSUME Pool!TypeOK, Pool!OnePlace, [Pool!Next]_(Pool!vars) PROVE Pool!TypeOK' /\ Pool!OnePlace'
    OBVIOUS
  <2>1. ASSUME NEW t \in Tasks, Pool!Accept(t) PROVE Pool!TypeOK' /\ Pool!OnePlace'
    BY <2>1, AcceptOnePlace
  <2>2. ASSUME NEW t \in Tasks, Pool!Reject(t) PROVE Pool!TypeOK' /\ Pool!OnePlace'
    <3>1. t \notin Pool!Known
      BY <2>2 DEF Pool!Reject, Pool!IsNext
    <3>2. UNCHANGED <<Pool!Pending, Pool!Running>>
      BY <2>2 DEF Pool!Reject, Pool!Pending, Pool!Running
    <3> QED BY <2>2, <3>1, <3>2 DEF Pool!Reject, Pool!Known, Pool!TypeOK, Pool!OnePlace
  <2>3. ASSUME NEW w \in Workers, Pool!Start(w) PROVE Pool!TypeOK' /\ Pool!OnePlace'
    BY <2>3, StartOnePlace
  <2>4. ASSUME NEW w \in Workers, Pool!Finish(w) PROVE Pool!TypeOK' /\ Pool!OnePlace'
    BY <2>4, FinishOnePlace
  <2>5. CASE Pool!Close \/ Pool!Down \/ UNCHANGED Pool!vars
    <3>1. UNCHANGED <<Waiting, Busy, Freed, rejected, Pool!Pending, Pool!Running>>
      BY <2>5 DEF Pool!Close, Pool!Down, Pool!vars, Pool!Pending, Pool!Running
    <3> QED BY <3>1 DEF Pool!TypeOK, Pool!OnePlace
  <2> QED BY <2>1, <2>2, <2>3, <2>4, <2>5 DEF Pool!Next
<1> QED BY <1>1, <1>2, PTL DEF Pool!Spec

\* The mapped state is a state of the abstract pool.
LEMMA PoolTypes ==
  ASSUME IInv, CopyInv
  PROVE  Pool!TypeOK /\ NoTask \notin Tasks /\ Tasks \subseteq Nat
<1>1. NoTask \notin Tasks /\ Tasks \subseteq Nat
  BY ThreadPoolAssumption DEF NoTask, Tasks
<1>2. Waiting \in Seq(Tasks)
  BY WaitingFacts DEF IInv
<1>3. Busy \in [Workers -> Tasks \cup {NoTask}]
  BY DEF Busy, IInv, TypeOK
<1> QED BY <1>1, <1>2, <1>3 DEF Pool!TypeOK, Freed, IInv, TypeOK

\* When the queue has room, adding a task is accepting it.
LEMMA PushAccepts ==
  ASSUME RefineInv, AddPush
  PROVE  Pool!Accept(i) /\ SubmitInv'
<1>1. /\ mpc = "add_push" /\ mpc' = "add_signal" /\ i' = i /\ count # MaxQueueSize
      /\ count \in Nat /\ ~stop /\ IInv /\ CopyInv
  BY ThreadPoolAssumption DEF RefineInv, IInv, TypeOK, RingInv, StopInv, AddPush, MGoto
<1>2. i \in Tasks /\ Submitted = i /\ Submitted' = i + 1
  BY <1>1, NotKnown DEF Submitted, RefineInv
<1>3. Waiting' = Append(Waiting, i)
  BY <1>1, PushAppends
<1>4. Len(Waiting) < MaxQueueSize
  <2>1. Len(Waiting) = count
    BY <1>1, WaitingFacts DEF IInv
  <2> QED BY <2>1, <1>1, ThreadPoolAssumption DEF IInv, TypeOK
<1>5. UNCHANGED <<Busy, Freed, Phase, rejected>> /\ Phase = "open"
  BY <1>1 DEF AddPush, MGoto, Busy, Freed, Phase
<1>6. Pool!IsNext(i)
  BY <1>2 DEF Pool!IsNext, RefineInv, SubmitInv
<1>7. Pool!Accept(i)
  BY <1>3, <1>4, <1>5, <1>6 DEF Pool!Accept
<1>8. Pool!Known' = Pool!Known \cup {i}
  BY <1>1, <1>2, <1>7, PoolTypes, KnownGrows
<1> QED BY <1>2, <1>7, <1>8 DEF RefineInv, SubmitInv, Tasks

\* When the queue is full, adding a task is rejecting it.
LEMMA FullRejects ==
  ASSUME RefineInv, AddFull
  PROVE  Pool!Reject(i) /\ SubmitInv'
<1>1. /\ mpc = "add_check" /\ mpc' = "add_unlock" /\ i' = i /\ count = MaxQueueSize
      /\ ~stop /\ IInv /\ CopyInv
  BY DEF RefineInv, IInv, StopInv, AddFull, QueueFull, MGoto
<1>2. i \in Tasks /\ Submitted = i /\ Submitted' = i + 1
  BY <1>1, NotKnown DEF Submitted, RefineInv
<1>3. Len(Waiting) = MaxQueueSize
  BY <1>1, WaitingFacts DEF IInv
<1>5. UNCHANGED <<Waiting, Busy, Freed, Phase>> /\ Phase = "open"
      /\ rejected' = rejected \cup {i}
  BY <1>1 DEF AddFull, MGoto, ring, Waiting, SlotAt, Busy, Freed, Phase
<1>6. Pool!IsNext(i)
  BY <1>2 DEF Pool!IsNext, RefineInv, SubmitInv
<1>7. Pool!Reject(i)
  BY <1>3, <1>5, <1>6 DEF Pool!Reject
<1>8. Pool!Known' = Pool!Known \cup {i}
  BY <1>1, <1>2, <1>7, PoolTypes, KnownGrows
<1> QED BY <1>2, <1>7, <1>8 DEF RefineInv, SubmitInv, Tasks

\* Moving front past a task is starting it.
LEMMA PopStarts ==
  ASSUME RefineInv, NEW w \in Workers, WPop(w)
  PROVE  Pool!Start(w) /\ SubmitInv'
<1>1. IInv /\ CopyInv /\ wpc[w] = "pop" /\ wpc' = [wpc EXCEPT ![w] = "unlock"]
      /\ wpc \in [Workers -> WorkerPc]
  BY DEF RefineInv, IInv, TypeOK, WPop, WGoto
<1>2. Waiting # <<>> /\ task[w] = Head(Waiting) /\ Waiting' = Tail(Waiting)
  BY <1>1, PopTakesHead
<1>3. Busy[w] = NoTask /\ Busy' = [Busy EXCEPT ![w] = Head(Waiting)]
  BY <1>1, <1>2 DEF WPop, Busy
<1>4. UNCHANGED <<Freed, Phase, rejected, Submitted>>
  BY DEF WPop, Freed, Phase, Submitted
<1>5. Pool!Start(w)
  BY <1>2, <1>3, <1>4 DEF Pool!Start
<1>6. Pool!Known' = Pool!Known
  BY <1>1, <1>5, PoolTypes, KnownGrows
<1> QED BY <1>4, <1>5, <1>6 DEF RefineInv, SubmitInv

\* The end of print_task, which frees the argument, finishes the task.
LEMMA RunFinishes ==
  ASSUME RefineInv, NEW w \in Workers, WRun(w)
  PROVE  Pool!Finish(w) /\ SubmitInv'
<1>1. IInv /\ CopyInv /\ wpc[w] = "run" /\ wpc' = [wpc EXCEPT ![w] = "lock"]
      /\ wpc \in [Workers -> WorkerPc] /\ arg \in [Tasks -> {"none", "allocated", "freed"}]
  BY DEF RefineInv, IInv, TypeOK, WRun, WGoto
<1>2. task[w] \in Tasks /\ Busy[w] = task[w] /\ NoTask \notin Tasks
  BY <1>1, BusyKnown, PoolTypes
<1>3. Busy' = [Busy EXCEPT ![w] = NoTask]
  BY <1>1 DEF WRun, Busy
<1>4. Freed' = Freed \cup {task[w]}
  BY <1>1, <1>2 DEF WRun, Freed
<1>5. UNCHANGED <<Waiting, Phase, rejected, Submitted>>
  BY DEF WRun, ring, Waiting, SlotAt, Phase, Submitted
<1>6. Pool!Finish(w)
  BY <1>2, <1>3, <1>4, <1>5 DEF Pool!Finish
<1>7. Pool!Known' = Pool!Known
  BY <1>1, <1>6, PoolTypes, KnownGrows
<1> QED BY <1>5, <1>6, <1>7 DEF RefineInv, SubmitInv

\* A step that changes nothing of the abstract state but its phase.
LEMMA KnownKept ==
  ASSUME SubmitInv, UNCHANGED <<Waiting, Busy, Freed, rejected, Submitted>>
  PROVE  SubmitInv'
BY DEF SubmitInv, Pool!Known, Pool!Pending, Pool!Running

\* Every step of the pool's threads is a step of the abstract pool or none.
LEMMA NextRefines ==
  ASSUME RefineInv, [Next]_vars
  PROVE  [Pool!Next]_(Pool!vars) /\ SubmitInv'
<1> USE DEF RefineInv
<1>1. CASE AddPush
  BY <1>1, PushAccepts, NotKnown DEF Pool!Next, AddPush, MGoto
<1>2. CASE AddFull
  BY <1>2, FullRejects, NotKnown DEF Pool!Next, AddFull, MGoto
<1>3. ASSUME NEW w \in Workers, WPop(w) PROVE [Pool!Next]_(Pool!vars) /\ SubmitInv'
  BY <1>3, PopStarts DEF Pool!Next
<1>4. ASSUME NEW w \in Workers, WRun(w) PROVE [Pool!Next]_(Pool!vars) /\ SubmitInv'
  BY <1>4, RunFinishes DEF Pool!Next
<1>5. CASE StopSet
  <2>1. UNCHANGED <<Waiting, Busy, Freed, rejected, Submitted>>
    BY <1>5 DEF StopSet, MGoto, ring, Waiting, SlotAt, Busy, Freed, Submitted
  <2>2. Phase = "open" /\ Phase' = "closing"
    BY <1>5 DEF StopSet, MGoto, Phase, IInv, StopInv
  <2> QED BY <2>1, <2>2, KnownKept DEF Pool!Next, Pool!Close
<1>6. CASE Destroy
  <2>1. UNCHANGED <<Waiting, Busy, Freed, rejected, Submitted>>
    BY <1>6 DEF Destroy, MGoto, ring, Waiting, SlotAt, Busy, Freed, Submitted
  <2>2. Phase = "closing" /\ Phase' = "down"
    BY <1>6 DEF Destroy, MGoto, Phase, IInv, StopInv
  <2>3. Waiting = <<>>
    <3>1. 0 \in Workers /\ wpc[0] = "done"
      BY <1>6, ThreadPoolAssumption DEF Destroy, MGoto, IInv, LoopInv, Workers
    <3>2. count = 0
      BY <3>1 DEF IInv, StopInv
    <3> QED BY <3>2, WaitingFacts DEF IInv
  <2>4. \A w \in Workers : Busy[w] = NoTask
    BY <1>6 DEF Destroy, MGoto, IInv, LoopInv, Busy
  <2> QED BY <2>1, <2>2, <2>3, <2>4, KnownKept DEF Pool!Next, Pool!Down
<1>7. CASE AddWrite
  <2>1. UNCHANGED <<Busy, Freed, rejected, Phase, Submitted>>
    BY <1>7 DEF AddWrite, MGoto, Busy, Freed, Phase, Submitted
  <2> QED BY <1>7, <2>1, WriteKeepsWaiting, KnownKept DEF Pool!vars
<1>8. CASE UNCHANGED vars
  <2>1. UNCHANGED <<Waiting, Busy, Freed, rejected, Phase, Submitted>>
    BY <1>8 DEF vars, ring, Waiting, SlotAt, Busy, Freed, Phase, Submitted
  <2> QED BY <2>1, KnownKept DEF Pool!vars
<1>9. CASE UNCHANGED <<Waiting, Busy, Freed, rejected, Phase, Submitted>>
  BY <1>9, KnownKept DEF Pool!vars
<1> QED
  BY <1>1, <1>2, <1>3, <1>4, <1>5, <1>6, <1>7, <1>8, <1>9, QuietSteps
  DEF Next, Worker, MainThread, Terminated

\* The initial state maps to the initial state of the abstract pool.
LEMMA InitRefines == Init => Pool!Init /\ RefineInv
<1> SUFFICES ASSUME Init PROVE Pool!Init /\ RefineInv
  OBVIOUS
<1>1. IInv
  BY InitIInv
<1>2. CopyInv
  BY DEF Init, CopyInv
<1>3. Waiting = <<>>
  BY <1>1, <1>2, WaitingFacts DEF Init, IInv
<1>4. /\ Busy = [w \in Workers |-> NoTask] /\ Freed = {} /\ rejected = {}
      /\ Phase = "open" /\ Submitted = 0
  BY DEF Init, Busy, Freed, Phase, Submitted
<1>5. Pool!Init
  BY <1>3, <1>4 DEF Pool!Init
<1>6. Pool!Known = {}
  BY <1>3, <1>4 DEF Pool!Known, Pool!Pending, Pool!Running
<1>7. SubmitInv
  BY <1>4, <1>6 DEF SubmitInv, Tasks
<1>8. ArgInv
  BY <1>4 DEF Init, ArgInv, Tasks, WithMain
<1> QED BY <1>1, <1>2, <1>5, <1>7, <1>8 DEF RefineInv

\* The pool of threads, with its lock, its condition variable and its ring,
\* implements the abstract pool: tasks are accepted in submission order while
\* there is room, start in that order, run once, and the pool goes down only
\* when nothing is queued or running.
THEOREM PoolImplementsTaskPool == Spec => ImplementsTaskPool
<1>1. RefineInv /\ [Next]_vars => RefineInv'
  BY NextIInv, NextCopyInv, NextArgInv, NextRefines DEF RefineInv
<1>2. RefineInv /\ [Next]_vars => [Pool!Next]_(Pool!vars)
  BY NextRefines
<1> QED BY <1>1, <1>2, InitRefines, PTL DEF Spec, ImplementsTaskPool, Pool!Spec

-------------------------------------------------------------------------------
(* Consequences for the tasks.                                             *)

\* Spec keeps the whole invariant.
LEMMA RefineInvariant == Spec => []RefineInv
<1>1. RefineInv /\ [Next]_vars => RefineInv'
  BY NextIInv, NextCopyInv, NextArgInv, NextRefines DEF RefineInv
<1> QED BY <1>1, InitRefines, PTL DEF Spec

\* What the abstract pool keeps, the pool of threads keeps of its mapped state.
LEMMA OnePlaceKept == Spec => []Pool!OnePlace
<1>1. NoTask \notin Tasks /\ Tasks \subseteq Nat
  BY ThreadPoolAssumption DEF NoTask, Tasks
<1>2. Pool!Spec => [](Pool!TypeOK /\ Pool!OnePlace)
  BY <1>1, OnePlaceInv
<1> QED
  BY <1>2, PoolImplementsTaskPool, PTL DEF ImplementsTaskPool

\* A set with at most one element has as many elements as members.
LEMMA AtMostOne ==
  ASSUME NEW S, \A x, y \in S : x = y
  PROVE  Cardinality(S) = IF S = {} THEN 0 ELSE 1
<1>1. CASE S = {}
  BY <1>1, FS_EmptySet
<1>2. CASE S # {}
  <2>1. PICK x \in S : TRUE
    BY <1>2
  <2>2. S = {x}
    BY <2>1
  <2> QED BY <2>2, <1>2, FS_Singleton
<1> QED BY <1>1, <1>2

\* The slots that hold t, counted through the abstract queue.
LEMMA QueueCount ==
  ASSUME RefineInv, Pool!OnePlace, NEW t \in Tasks
  PROVE  Cardinality(InQueue(t)) = IF t \in Pool!Pending THEN 1 ELSE 0
<1>1. /\ DOMAIN Waiting = 1 .. count
      /\ \A k \in 1 .. count : Waiting[k] = queue[SlotAt(k - 1)]
  BY WaitingFacts DEF RefineInv, IInv
<1>2. count \in Nat
  BY ThreadPoolAssumption DEF RefineInv, IInv, TypeOK
<1>3. \A k \in 0 .. count - 1 : k + 1 \in 1 .. count /\ Waiting[k + 1] = queue[SlotAt(k)]
  <2> SUFFICES ASSUME NEW k \in 0 .. count - 1
               PROVE  k + 1 \in 1 .. count /\ Waiting[k + 1] = queue[SlotAt(k)]
    OBVIOUS
  <2>1. k + 1 \in 1 .. count /\ (k + 1) - 1 = k
    BY <1>2
  <2> QED BY <2>1, <1>1
<1>4. \A x, y \in InQueue(t) : x = y
  <2> SUFFICES ASSUME NEW x \in InQueue(t), NEW y \in InQueue(t) PROVE x = y
    OBVIOUS
  <2>1. PICK j \in 0 .. count - 1 : x = SlotAt(j) /\ queue[SlotAt(j)] = t
    BY DEF InQueue, Occupied
  <2>2. PICK k \in 0 .. count - 1 : y = SlotAt(k) /\ queue[SlotAt(k)] = t
    BY DEF InQueue, Occupied
  <2>3. j + 1 = k + 1
    BY <2>1, <2>2, <1>1, <1>3 DEF Pool!OnePlace
  <2>4. j = k
    BY <2>3
  <2> QED BY <2>1, <2>2, <2>4
<1>5. InQueue(t) # {} <=> t \in Pool!Pending
  <2>1. ASSUME NEW x \in InQueue(t) PROVE t \in Pool!Pending
    <3>1. PICK j \in 0 .. count - 1 : queue[SlotAt(j)] = t
      BY DEF InQueue, Occupied
    <3> QED BY <3>1, <1>1, <1>3 DEF Pool!Pending
  <2>2. ASSUME t \in Pool!Pending PROVE InQueue(t) # {}
    <3>1. PICK k \in 1 .. count : Waiting[k] = t
      BY <2>2, <1>1 DEF Pool!Pending
    <3>2. k - 1 \in 0 .. count - 1 /\ queue[SlotAt(k - 1)] = t
      BY <3>1, <1>1, <1>2
    <3> QED BY <3>2 DEF InQueue, Occupied
  <2> QED BY <2>1, <2>2
<1> QED BY <1>4, <1>5, AtMostOne

\* The workers that have t in their hands.
LEMMA HandCount ==
  ASSUME RefineInv, Pool!OnePlace, NEW t \in Tasks
  PROVE  Cardinality(InHands(t)) = IF t \in Pool!Running THEN 1 ELSE 0
<1>1. NoTask \notin Tasks
  BY ThreadPoolAssumption DEF NoTask, Tasks
<1>2. \A w \in Workers : w \in InHands(t) <=> Busy[w] = t
  BY <1>1 DEF InHands, Busy
<1>3. InHands(t) \subseteq Workers
  BY DEF InHands
<1>4. \A x, y \in InHands(t) : x = y
  BY <1>1, <1>2, <1>3 DEF Pool!OnePlace
<1>5. InHands(t) # {} <=> t \in Pool!Running
  BY <1>1, <1>2, <1>3 DEF Pool!Running
<1> QED BY <1>4, <1>5, AtMostOne

\* Where a task is, by the abstract pool.
LEMMA PlaceOf ==
  ASSUME RefineInv, Pool!OnePlace, NEW t \in Tasks
  PROVE  /\ t < Submitted => /\ ~WithMain(t) /\ arg[t] # "none"
                             /\ t \in Pool!Known
         /\ ~(t < Submitted) => /\ t \notin Pool!Known
                                /\ arg[t] # "none" <=> WithMain(t)
         /\ arg[t] \in {"none", "allocated", "freed"}
         /\ arg[t] = "freed" <=> t \in Freed
<1>1. Submitted \in Nat /\ t \in Nat
  BY ThreadPoolAssumption DEF Submitted, RefineInv, IInv, TypeOK, Tasks
<1>2. WithMain(t) => t = Submitted
  BY DEF WithMain, Submitted
<1>3. t \in Pool!Known <=> t < Submitted
  BY DEF RefineInv, SubmitInv
<1>4. arg[t] = "none" <=> t >= Submitted /\ ~WithMain(t)
  BY DEF RefineInv, ArgInv
<1>5. arg[t] \in {"none", "allocated", "freed"} /\ (arg[t] = "freed" <=> t \in Freed)
  BY DEF RefineInv, IInv, TypeOK, Freed
<1> QED BY <1>1, <1>2, <1>3, <1>4, <1>5

\* Each task is run, and its argument freed, at most once: until then it is in
\* one slot of the ring, in one worker's hands, rejected, or still with main.
THEOREM TaskNeverLostOrDoubled == Spec => []TaskInOnePlace
<1>1. ASSUME RefineInv, Pool!OnePlace PROVE TaskInOnePlace
  <2> SUFFICES ASSUME NEW t \in Tasks
               PROVE  Cardinality(InQueue(t)) + Cardinality(InHands(t))
                        + (IF t \in rejected THEN 1 ELSE 0)
                        + (IF WithMain(t) THEN 1 ELSE 0)
                      = IF arg[t] = "allocated" THEN 1 ELSE 0
    BY DEF TaskInOnePlace
  <2>1. Cardinality(InQueue(t)) = IF t \in Pool!Pending THEN 1 ELSE 0
    BY <1>1, QueueCount
  <2>2. Cardinality(InHands(t)) = IF t \in Pool!Running THEN 1 ELSE 0
    BY <1>1, HandCount
  <2>3. CASE t < Submitted
    BY <1>1, <2>1, <2>2, <2>3, PlaceOf DEF Pool!Known, Pool!OnePlace
  <2>4. CASE ~(t < Submitted)
    BY <1>1, <2>1, <2>2, <2>4, PlaceOf DEF Pool!Known
  <2> QED BY <2>3, <2>4
<1> QED BY <1>1, RefineInvariant, OnePlaceKept, PTL

\* thread_pool_destroy returns only after every accepted task has run; what is
\* still allocated then are the arguments of the rejected tasks.
THEOREM DestroyDrains == Spec => []ShutdownDrains
<1>1. ASSUME RefineInv, Pool!OnePlace, mpc \in {"free", "done"}
      PROVE  count = 0 /\ \A t \in Tasks :
               arg[t] = IF t \in rejected THEN "allocated" ELSE "freed"
  <2>1. 0 \in Workers /\ \A w \in Workers : wpc[w] = "done"
    BY <1>1, ThreadPoolAssumption DEF RefineInv, IInv, LoopInv, Workers
  <2>2. count = 0
    BY <1>1, <2>1 DEF RefineInv, IInv, StopInv
  <2>3. Waiting = <<>>
    BY <1>1, <2>2, WaitingFacts DEF RefineInv, IInv
  <2>4. Pool!Pending = {} /\ Pool!Running = {}
    <3>1. Pool!Pending = {}
      BY <2>3 DEF Pool!Pending
    <3>2. \A w \in Workers : Busy[w] = NoTask
      BY <2>1 DEF Busy
    <3> QED BY <3>1, <3>2 DEF Pool!Running
  <2>5. ASSUME NEW t \in Tasks
        PROVE  arg[t] = IF t \in rejected THEN "allocated" ELSE "freed"
    <3>1. t < Submitted
      BY <1>1, ThreadPoolAssumption DEF Submitted, Tasks
    <3> QED BY <1>1, <2>4, <3>1, PlaceOf DEF Pool!Known, Pool!OnePlace
  <2> QED BY <2>2, <2>5
<1>2. RefineInv /\ Pool!OnePlace => ShutdownDrains
  BY <1>1 DEF ShutdownDrains
<1> QED BY <1>2, RefineInvariant, OnePlaceKept, PTL
===============================================================================
