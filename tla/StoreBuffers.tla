------------------------------ MODULE StoreBuffers ------------------------------
(***************************************************************************)
(* The programs of the course that touch shared memory without a lock, on  *)
(* x86: the handshake of shmem.c and shmem_anon.c, the reordering          *)
(* experiment with plain and with seq_cst accesses, Peterson's mutex, and  *)
(* the 64-bit value in one cache line and across two.  A behaviour is a    *)
(* run of one of them; what the others own stays as it is.                 *)
(***************************************************************************)
EXTENDS TSO

CONSTANTS
  Iterations,       \* ITERATIONS of shmem.c: 5
  Rounds,           \* the iterations of main's loop in the experiment: 1000000
  LockIterations,   \* the iterations of a thread of peterson.c: 100
  Depth             \* see TornValue

ASSUME StoreBuffersAssumption ==
  {Iterations, Rounds, LockIterations, Depth} \subseteq Nat \ {0}

VARIABLES
  program,                                          \* which of them runs
  cpc, ci, reply, spc, si, temp, heard, answers,    \* see ShmHandshake
  pc, mpc, round, detected, overtook,               \* see StoreBuffering
  tpc, reg, iter, main, started, joined,            \* see PetersonTSO, LockClient
  next, left, got, mixed, v, torn                   \* see TornValue

handshake == <<cpc, ci, reply, spc, si, temp, heard, answers>>
experiment == <<pc, mpc, round, detected, overtook>>
locked == <<tpc, reg, iter, main, started, joined>>
reading == <<next, left, got, mixed, v, torn>>
vars == <<memory, program, handshake, experiment, locked, reading>>

Shm      == INSTANCE ShmHandshake
Plain    == INSTANCE StoreBuffering WITH SeqCst <- FALSE
SeqCst   == INSTANCE StoreBuffering WITH SeqCst <- TRUE
Peterson == INSTANCE PetersonTSO WITH Iterations <- LockIterations, pc <- tpc, mpc <- main
Aligned  == INSTANCE TornValue WITH Parts <- {"line"}
Straddling == INSTANCE TornValue WITH Parts <- {"line", "next line"}

Init ==
  /\ Shm!OwnInit /\ Plain!OwnInit /\ Peterson!OwnInit
  /\ \/ program = "shmem" /\ Shm!MemoryInit /\ Aligned!OwnInit
     \/ program \in {"plain", "seq_cst"} /\ Plain!MemoryInit /\ Aligned!OwnInit
     \/ program = "peterson" /\ Peterson!MemoryInit /\ Aligned!OwnInit
     \/ program = "cpu_atomic" /\ Aligned!MemoryInit /\ Aligned!OwnInit
     \/ program = "cpu_non_atomic" /\ Straddling!MemoryInit /\ Straddling!OwnInit

OnlyHandshake == program = "shmem" /\ UNCHANGED <<program, experiment, locked, reading>>
Server == OnlyHandshake /\ Shm!ServerStep
Client == OnlyHandshake /\ Shm!ClientStep
ShmMemory(p) == OnlyHandshake /\ Shm!MemoryStep(p)

OnlyExperiment(which) ==
  program = which /\ UNCHANGED <<program, handshake, locked, reading>>
Experiment ==
  \/ OnlyExperiment("plain") /\ Plain!Next
  \/ OnlyExperiment("seq_cst") /\ SeqCst!Next

OnlyLocked == program = "peterson" /\ UNCHANGED <<program, handshake, experiment, reading>>
LockThread(t) == OnlyLocked /\ Peterson!Thread(t)
LockMain == OnlyLocked /\ Peterson!Main
LockMemory(t) == OnlyLocked /\ Peterson!MemoryStep(t)

OnlyReading(which) ==
  program = which /\ UNCHANGED <<program, handshake, experiment, locked>>
CpuAtomic == OnlyReading("cpu_atomic") /\ Aligned!Step
CpuNonAtomic == OnlyReading("cpu_non_atomic") /\ Straddling!Step

Terminated == "done" \in {cpc, mpc, main} /\ UNCHANGED vars

Next ==
  \/ Server \/ Client \/ \E p \in Shm!Procs : ShmMemory(p)
  \/ LockMain \/ \E t \in Peterson!Threads : LockThread(t) \/ LockMemory(t)
  \/ Experiment \/ CpuAtomic \/ CpuNonAtomic
  \/ Terminated

Spec == Init /\ [][Next]_vars

\* Both processes of shmem.c and the threads of peterson.c are scheduled, and a
\* store reaches memory sooner or later.
FairSpec ==
  /\ Spec
  /\ WF_vars(Server) /\ WF_vars(Client)
  /\ \A p \in Shm!Procs : WF_vars(ShmMemory(p))
  /\ WF_vars(LockMain)
  /\ \A t \in Peterson!Threads : WF_vars(LockThread(t)) /\ WF_vars(LockMemory(t))

-------------------------------------------------------------------------------

\* The flags of shmem.c pass whole messages, in order, each exactly once: the
\* server hears every ping and the client the echo of the ping it has just sent,
\* although no access is atomic and stores are delayed.
ImplementsRequestReply == Shm!ImplementsRequestReply

\* Neither process waits for ever for the other's flag, and main() comes to its
\* end after the last echo.
HandshakeEnds == program = "shmem" => <>(cpc = "done")

\* Atomic stores to flag and turn are enough: on store buffers peterson.c, whose
\* counter is a plain int, does nothing that it would not do if every access
\* were sequentially consistent.
ImplementsScPeterson ==
  /\ program = "peterson" => Peterson!Sc!Init
  /\ [][program = "peterson" => [Peterson!Sc!Next]_(Peterson!Sc!vars)]_vars

\* peterson_lock excludes: the two threads are never both between peterson_lock
\* and peterson_unlock.
MutualExclusion == program = "peterson" => Peterson!Sc!MutualExclusion

\* A thread that waits in peterson_lock is overtaken at most once: the turn the
\* other thread gives away when it comes back stays with the waiting thread.
TurnKept == [][program = "peterson" => Peterson!Sc!WaiterKeepsTurn]_vars

\* Once a thread has given the turn away it gets in, even if the other thread
\* keeps coming back: nobody starves.
NoStarvation ==
  \A t \in Peterson!Threads :
    Peterson!Sc!Spinning(t) ~> Peterson!Sc!InCriticalSection(t)

\* What the experiments report has happened.  A reordering is reported only if
\* some thread's load ran while its store was still in the store buffer: a zero
\* left over from a thread that has not run yet, or from the round before, does
\* not count; and with seq_cst none is reported.  A value is called torn only if
\* it is, or if it is the 0 from before the first store; and one that lies in one
\* cache line never is.
ReportIsGenuine ==
  /\ detected => program = "plain" /\ \E t \in Plain!Threads : overtook[t]
  /\ program = "cpu_atomic" => Aligned!ReportIsGenuine /\ ~mixed
  /\ program = "cpu_non_atomic" => Straddling!ReportIsGenuine
===============================================================================
